---- MODULE Spec2Model ----
(***************************************************************************)
(* VRCIM live log-tail event pipeline: the session/participant state       *)
(* machine of logParser.ts, the persistence store of database.ts, the      *)
(* rate-limited request queue of the VRChat API client, the process        *)
(* monitor and tail reader of the monitor module, and the state the web    *)
(* server keeps for its subscribers.                                       *)
(*                                                                         *)
(* Abstractions, all of inputs and never of the code's decisions:          *)
(*  - a log line is the record of what the parser's regular expressions    *)
(*    extract from it (which pattern matches, and the captured groups);    *)
(*    a line matches at most one pattern;                                  *)
(*  - a player's display name is determined by the player id;              *)
(*  - a session UUID (randomUUID) is a fresh natural number;               *)
(*  - one model tick is half of RATE_LIMIT_DELAY.                          *)
(***************************************************************************)
EXTENDS Integers, Sequences, FiniteSets, TLC

\* ------------------------------------------------------------------ bounds
MaxSessions == 2        \* session UUIDs minted in a run of Spec
MaxVisits == 1          \* session UUIDs minted in a run of SpecPlayers
MaxPlayerRows == 1      \* player join/leave recordings in a run of SpecPlayers
MaxJoins == 2           \* player joins recorded in a run of SpecEnrich
MaxEvents == 2          \* player joins and leaves recorded in a run of SpecSubscribers
MaxBackfills == 2       \* session UUIDs minted in a run of SpecRestart
MaxQueue == 2           \* requests waiting in the API client's queue
MaxSaves == 2           \* times_encountered a cached user may reach
MaxStreams == 2         \* read streams of the tail reader open at the same time

\* ------------------------------------------------------- program constants
RATE_LIMIT_DELAY == 2   \* 1000 ms, in ticks of 500 ms
MAX_VALIDATION_FAILURES == 3
recentActivityLimit == 50   \* RECENT_ACTIVITY_LIMIT when the environment does not set it

\* ------------------------------------------------------------ value sets
Null == "null"       \* a null string
NoSession == 0       \* a null session UUID
NoStamp == 0         \* a null timestamp
NoGap == 0 - 1       \* no request has completed yet
\* a null cached_users row, and a null queued request
NoUser == [trustRank |-> Null, timesEncountered |-> 0]
NoTask == [userId |-> Null, origin |-> Null, timestamp |-> NoStamp]
WorldNames == {"Alpha", "Beta"}
WorldIds == {"wrld_1", "wrld_2"}
Users == {"usr_a", "usr_b"}
\* tag lists the external API may return for a user
TagSets == { {}, {"system_trust_basic"}, {"system_trust_veteran"},
             {"system_troll"}, {"system_probable_troll", "system_trust_basic"} }
\* outcomes of one outbound GET /users/:id
Outcomes == {"ok", "notfound", "error"}

\* Log files, numbered in the order the client creates them; a null file name
Files == {1, 2}
NoFile == 0
\* the size of a file not detected yet
NoSize == 0 - 1
\* no reconnection timer is pending
NoTimer == 0 - 1
\* The sockets of the browsers that may subscribe to the web server's events
Subscribers == {"ws_1", "ws_2"}
\* The auth service with no session, and right after a login
NoAuth ==
    [saved |-> FALSE, lastValidated |-> "never", validationFailures |-> 0,
     periodic |-> FALSE, initialized |-> TRUE]
LoggedIn ==
    [saved |-> TRUE, lastValidated |-> "fresh", validationFailures |-> 0,
     periodic |-> TRUE, initialized |-> TRUE]
NothingReceived == [c \in Subscribers |-> << >>]
\* A file is text: each line is its first part, its second part and a newline
LineBytes == 3

\* A log line, as seen through the parser's patterns.
Line(kind, name, id, user, ts) ==
    [kind |-> kind, name |-> name, id |-> id, user |-> user, ts |-> ts]

NoLine == Line(Null, Null, Null, Null, NoStamp)

\* A message handed to every open subscriber.
Msg(type, text, subject, session, num) ==
    [type |-> type, text |-> text, subject |-> subject, session |-> session, num |-> num]

VARIABLES
    \* ParseContext (VRChatMonitor.context)
    currentWorldName, currentWorldId, currentSessionUUID, currentPlayersInWorld,
    \* locals of parseLogContent (the accumulated world data, the line of the
    \* latest iteration), whether a batch is being parsed, and with which flag
    acc, lastLine, inBatch, shouldFetch,
    \* persistence store
    world_activity, player_activity, user_encounters, cached_users,
    \* API client
    requestQueue, processing, consumers, sinceDone,
    \* web server
    wsSessionUUID, wsPlayerCount, sent,
    \* collaborators
    uuidCounter, authenticated, isRunning,
    \* the log directory: the lines the client writes to each file, the bytes of
    \* them written so far, the number of files created
    logText, fileSize, fileCount,
    \* tail reader (VRChatMonitor): fields, the read streams that are open, and
    \* the size each file had when it was first detected
    currentLogFile, lastReadPosition, logReadInterval, streams, historySize,
    \* VR notification service: its fields, the state of the socket it holds, the
    \* reconnection timer, and the notifications the running handler has sent
    paused, ovrtConnected, ovrtWebSocket, reconnectTimer, xsoChecked, delivered,
    \* web server subscribers: the set of sockets in the order they were added, the
    \* readyState of each socket, the sockets whose send raises, what each has
    \* received from the running handler, and whether an error raised by a send is
    \* on its way up the call stack (after a handler: has left it uncaught)
    clients, readyState, sendRaises, received, threw,
    \* the SIGINT handler: the components it has stopped, in the order it stopped
    \* them, with the exit of the process last (empty while the program runs)
    shutdown,
    \* VRChatAuthService: whether a session is stored, the age of its last
    \* validation, validationFailures, whether the validation timer runs and
    \* whether initialize has run (isAuthenticated is the variable authenticated)
    authState

ctxVars == <<currentWorldName, currentWorldId, currentSessionUUID, currentPlayersInWorld>>
batchVars == <<acc, lastLine, inBatch, shouldFetch>>
dbVars == <<world_activity, player_activity, user_encounters, cached_users>>
apiVars == <<requestQueue, processing, consumers, sinceDone>>
wsVars == <<wsSessionUUID, wsPlayerCount, sent>>
envVars == <<uuidCounter, authenticated, isRunning>>
dirVars == <<logText, fileSize, fileCount>>
tailVars == <<currentLogFile, lastReadPosition, logReadInterval, streams, historySize>>
vrVars == <<paused, ovrtConnected, ovrtWebSocket, reconnectTimer, xsoChecked>>
subVars == <<clients, readyState, sendRaises, threw>>
vars == <<ctxVars, batchVars, dbVars, apiVars, wsVars, envVars, dirVars, tailVars, vrVars, delivered,
          subVars, received, shutdown, authState>>

\* The part of the program state a line handler reads and writes, as one record.
St == [ currentWorldName |-> currentWorldName,
        currentWorldId |-> currentWorldId,
        currentSessionUUID |-> currentSessionUUID,
        currentPlayersInWorld |-> currentPlayersInWorld,
        world_activity |-> world_activity,
        player_activity |-> player_activity,
        user_encounters |-> user_encounters,
        cached_users |-> cached_users,
        requestQueue |-> requestQueue,
        processing |-> processing,
        consumers |-> consumers,
        sinceDone |-> sinceDone,
        wsSessionUUID |-> wsSessionUUID,
        wsPlayerCount |-> wsPlayerCount,
        sent |-> sent,
        uuidCounter |-> uuidCounter,
        authenticated |-> authenticated,
        paused |-> paused,
        ovrtConnected |-> ovrtConnected,
        ovrtWebSocket |-> ovrtWebSocket,
        reconnectTimer |-> reconnectTimer,
        xsoChecked |-> xsoChecked,
        delivered |-> delivered,
        clients |-> clients,
        readyState |-> readyState,
        sendRaises |-> sendRaises,
        received |-> received,
        threw |-> threw,
        shutdown |-> shutdown,
        authState |-> authState ]

EmptyAcc == [worldName |-> Null, worldId |-> Null, worldJoinTimestamp |-> NoStamp]

InitSt == [ currentWorldName |-> Null,
            currentWorldId |-> Null,
            currentSessionUUID |-> NoSession,
            currentPlayersInWorld |-> {},
            world_activity |-> << >>,
            player_activity |-> << >>,
            user_encounters |-> << >>,
            cached_users |-> [u \in Users |-> NoUser],
            requestQueue |-> << >>,
            processing |-> FALSE,
            consumers |-> << >>,
            sinceDone |-> NoGap,
            wsSessionUUID |-> NoSession,
            wsPlayerCount |-> 0,
            sent |-> << >>,
            uuidCounter |-> 0,
            authenticated |-> FALSE,
            paused |-> FALSE,
            ovrtConnected |-> FALSE,
            ovrtWebSocket |-> "connecting",
            reconnectTimer |-> NoTimer,
            xsoChecked |-> FALSE,
            delivered |-> << >>,
            clients |-> << >>,
            readyState |-> [c \in Subscribers |-> "none"],
            sendRaises |-> {},
            received |-> NothingReceived,
            threw |-> FALSE,
            shutdown |-> << >>,
            authState |-> NoAuth ]

\* ------------------------------------------------------------- web server

\* A catch block has taken the error
Caught(S) == [S EXCEPT !.threw = FALSE]

\* clients.forEach(client => { if (client.readyState === 1) client.send(message) })
\* over the sockets still to visit, in the order they were added to the set: a
\* socket that is not open is skipped, a send that raises ends the loop
RECURSIVE ForEachSend(_, _, _)
ForEachSend(S, order, msg) ==
    IF order = << >> THEN S
    ELSE LET client == Head(order)
         IN IF S.readyState[client] # "open" THEN ForEachSend(S, Tail(order), msg)
            ELSE IF client \in S.sendRaises THEN [S EXCEPT !.threw = TRUE]
            ELSE ForEachSend([S EXCEPT !.received[client] = Append(@, msg)], Tail(order), msg)

\* Common to every broadcast: sent lists the messages the handler has broadcast.
\* A broadcast is not reached when an error is on its way up
Broadcast(S, msg) ==
    IF S.threw THEN S
    ELSE ForEachSend([S EXCEPT !.sent = Append(@, msg)], S.clients, msg)

BroadcastLog(S, eventType, sessionUuid, subject, timestamp) ==
    Broadcast(S, Msg("log", eventType, subject, sessionUuid, timestamp))

BroadcastSession(S, sessionUUID) ==
    IF S.threw THEN S
    ELSE Broadcast([S EXCEPT !.wsSessionUUID = sessionUUID], Msg("session", Null, Null, sessionUUID, 0))

\* the body of broadcastStats is a try block of its own
BroadcastStats(S) ==
    IF S.threw THEN S
    ELSE Caught(Broadcast(S, Msg("stats", Null, Null, NoSession,
                                 Len(S.world_activity) + Len(S.player_activity))))

BroadcastPlayerCount(S, count) ==
    IF S.threw THEN S
    ELSE Broadcast([S EXCEPT !.wsPlayerCount = count], Msg("playerCount", Null, Null, NoSession, count))

BroadcastQueueStatusWs(S, queueSize) == Broadcast(S, Msg("apiQueue", Null, Null, NoSession, queueSize))

BroadcastUserCached(S, userId, trustRank) ==
    Broadcast(S, Msg("userCached", trustRank, userId, NoSession, 0))

BroadcastVRChatClosed(S) ==
    IF S.threw THEN S
    ELSE Broadcast([S EXCEPT !.wsSessionUUID = NoSession, !.wsPlayerCount = 0],
                   Msg("vrchatClosed", Null, Null, NoSession, 0))

BroadcastNotificationStatus(S, isPaused) ==
    Broadcast(S, Msg("notificationStatus", IF isPaused THEN "paused" ELSE "resumed", Null, NoSession, 0))

\* ------------------------------------------------- VR notification service

\* One notification handed to a transport, and what became of it
Notification(transport, kind, name, result) ==
    [transport |-> transport, kind |-> kind, name |-> name, result |-> result]

\* WebSocket.send(data) with no callback, by the socket's readyState: an open
\* socket takes the message, a connecting one throws, a closing or closed one
\* drops it without a word
WsSend(state) ==
    CASE state = "open" -> "sent"
      [] state = "connecting" -> "threw"
      [] OTHER -> "lost"

\* new WebSocket(OVRT_WS_URL) with its listeners; the listeners are the actions
\* OvrtOpen, OvrtError and OvrtClose
InitializeOVRToolkit(S) == [S EXCEPT !.ovrtWebSocket = "connecting", !.reconnectTimer = NoTimer]

SendOVRToolkitNotification(S, kind, name) ==
    IF ~S.ovrtConnected THEN [S |-> S, ok |-> FALSE]
    ELSE LET result == WsSend(S.ovrtWebSocket)
         IN [S |-> [S EXCEPT !.delivered = Append(@, Notification("ovrt", kind, name, result))],
             ok |-> result # "threw"]

\* the datagram is handed to the UDP socket; a failure is only reported later,
\* to the callback, which logs it
SendXSOverlayNotification(S, kind, name) ==
    [S |-> [S EXCEPT !.delivered = Append(@, Notification("xso", kind, name, "sent"))],
     ok |-> TRUE]

\* sendVisitorNotification with both transports used in one call
SendVisitorNotificationOnBoth(S, visitorName) ==
    IF S.paused THEN S
    ELSE SendXSOverlayNotification(
           SendOVRToolkitNotification(S, "visitor", visitorName).S, "visitor", visitorName).S

\* sendVisitorNotification without the test of the pause flag
SendVisitorNotificationUnpaused(S, visitorName) ==
    IF S.ovrtConnected
    THEN SendOVRToolkitNotification(S, "visitor", visitorName).S
    ELSE SendXSOverlayNotification([S EXCEPT !.xsoChecked = TRUE], "visitor", visitorName).S

SendVisitorNotification(S, visitorName) ==
    IF S.paused THEN S
    ELSE IF S.ovrtConnected
         THEN SendOVRToolkitNotification(S, "visitor", visitorName).S
         ELSE SendXSOverlayNotification([S EXCEPT !.xsoChecked = TRUE], "visitor", visitorName).S

SendNuisanceNotification(S, playerName, nuisanceType) ==
    IF S.paused THEN S
    ELSE IF S.ovrtConnected
         THEN SendOVRToolkitNotification(S, nuisanceType, playerName).S
         ELSE SendXSOverlayNotification([S EXCEPT !.xsoChecked = TRUE], nuisanceType, playerName).S

\* ------------------------------------------------------- persistence store

GenerateSessionUUID(S) == S.uuidCounter + 1

RecordWorldActivity(S, sessionUuid, eventType, worldName, timestamp, worldId) ==
    [S EXCEPT !.world_activity = Append(@,
        [session_uuid |-> sessionUuid, event_type |-> eventType,
         world_name |-> worldName, timestamp |-> timestamp, world_id |-> worldId])]

RecordPlayerActivity(S, sessionUuid, eventType, timestamp, playerId) ==
    [S EXCEPT !.player_activity = Append(@,
        [session_uuid |-> sessionUuid, event_type |-> eventType,
         timestamp |-> timestamp, player_id |-> playerId])]

RecordUserEncounter(S, userId, sessionUuid, timestamp, worldName, eventType) ==
    [S EXCEPT !.user_encounters = Append(@,
        [user_id |-> userId, session_uuid |-> sessionUuid, timestamp |-> timestamp,
         world_name |-> worldName, event_type |-> eventType])]

GetUser(S, userId) == S.cached_users[userId]

\* INSERT ... ON CONFLICT(id) DO UPDATE: a new row starts at times_encountered 1,
\* an existing row takes the new trust_rank and counts one more.
SaveUser(S, userId, trustRank) ==
    LET old == S.cached_users[userId]
        rank == IF trustRank = Null THEN "unknown" ELSE trustRank
    IN [S EXCEPT !.cached_users[userId] =
           IF old = NoUser
           THEN [trustRank |-> rank, timesEncountered |-> 1]
           ELSE [trustRank |-> rank, timesEncountered |-> old.timesEncountered + 1]]

\* The writes of a join/leave recording with the placeholder saved whether the
\* user is cached or not
TransactionBodyAlwaysPlaceholder(S, userId, sessionUuid, timestamp, worldName, playerEvent, encounterEvent, fault) ==
    LET fail1 == fault = 1
        s1 == IF ~fail1 THEN SaveUser(S, userId, "unknown") ELSE S
        fail2 == ~fail1 /\ fault = 2
        s2 == IF fail1 \/ fail2 THEN s1
              ELSE RecordPlayerActivity(s1, sessionUuid, playerEvent, timestamp, userId)
        fail3 == ~fail1 /\ ~fail2 /\ fault = 3
        s3 == IF fail1 \/ fail2 \/ fail3 THEN s2
              ELSE RecordUserEncounter(s2, userId, sessionUuid, timestamp, worldName, encounterEvent)
    IN [S |-> s3, threw |-> fail1 \/ fail2 \/ fail3]

\* The three writes of a join/leave recording, run in order until one throws:
\* fault = k makes the k-th write throw (0: none does).  The result is the store
\* as the writes that ran left it, before the transaction commits or rolls back.
TransactionBody(S, userId, sessionUuid, timestamp, worldName, playerEvent, encounterEvent, fault) ==
    LET needUser == GetUser(S, userId) = NoUser
        fail1 == needUser /\ fault = 1
        s1 == IF needUser /\ ~fail1 THEN SaveUser(S, userId, "unknown") ELSE S
        fail2 == ~fail1 /\ fault = 2
        s2 == IF fail1 \/ fail2 THEN s1
              ELSE RecordPlayerActivity(s1, sessionUuid, playerEvent, timestamp, userId)
        fail3 == ~fail1 /\ ~fail2 /\ fault = 3
        s3 == IF fail1 \/ fail2 \/ fail3 THEN s2
              ELSE RecordUserEncounter(s2, userId, sessionUuid, timestamp, worldName, encounterEvent)
    IN [S |-> s3, threw |-> fail1 \/ fail2 \/ fail3]

\* recordPlayerJoinTransaction with the three writes run outside a transaction:
\* what the writes before the failing one did stays in the store
RecordPlayerJoinWithoutTransaction(S, userId, sessionUuid, timestamp, worldName, fault) ==
    TransactionBody(S, userId, sessionUuid, timestamp, worldName, "Player Joined", "joined", fault)

\* db.transaction(fn)(): commit when fn returns, roll back and rethrow when it throws
RecordPlayerJoinTransaction(S, userId, sessionUuid, timestamp, worldName, fault) ==
    LET body == TransactionBody(S, userId, sessionUuid, timestamp, worldName,
                                "Player Joined", "joined", fault)
    IN IF body.threw THEN [S |-> S, threw |-> TRUE] ELSE body

RecordPlayerLeaveTransaction(S, userId, sessionUuid, timestamp, worldName, fault) ==
    LET body == TransactionBody(S, userId, sessionUuid, timestamp, worldName,
                                "Player Left", "left", fault)
    IN IF body.threw THEN [S |-> S, threw |-> TRUE] ELSE body

\* Sessions with a 'Joining World' row and no 'Leaving World' row
OpenSessions(S) ==
    { S.world_activity[i].session_uuid : i \in { j \in DOMAIN S.world_activity :
          /\ S.world_activity[j].event_type = "Joining World"
          /\ \A k \in DOMAIN S.world_activity :
                ~ ( S.world_activity[k].event_type = "Leaving World"
                    /\ S.world_activity[k].session_uuid = S.world_activity[j].session_uuid ) } }

\* ... ORDER BY timestamp DESC LIMIT 1: the candidates are the open sessions whose
\* join stamp is the largest (SQLite returns one of them), null when there is none
GetCurrentActiveSession(S) ==
    LET open == { j \in DOMAIN S.world_activity :
                    /\ S.world_activity[j].event_type = "Joining World"
                    /\ S.world_activity[j].session_uuid \in OpenSessions(S) }
    IN IF open = {} THEN {NoSession}
       ELSE { S.world_activity[j].session_uuid : j \in { i \in open :
                 \A k \in open : S.world_activity[k].timestamp <= S.world_activity[i].timestamp } }

\* -------------------------------------------------------------- API client

GetUserTrustRank(tags) ==
    IF "system_trust_legend" \in tags \/ "system_trust_veteran" \in tags THEN "Trusted User"
    ELSE IF "system_trust_trusted" \in tags THEN "Known User"
    ELSE IF "system_trust_known" \in tags THEN "User"
    ELSE IF "system_trust_basic" \in tags THEN "New User"
    ELSE "Visitor"

EnrichUserData(tags) == [tags |-> tags, trustRank |-> GetUserTrustRank(tags)]

\* rec[name] of a JavaScript object: undefined (here: otherwise) when the object
\* has no such property
Property(rec, name, otherwise) == IF name \in DOMAIN rec THEN rec[name] ELSE otherwise

\* String.prototype.toLowerCase on the trust ranks the store can hold
ToLowerCase(str) ==
    CASE str = "Visitor" -> "visitor"
      [] str = "Trusted User" -> "trusted user"
      [] str = "Known User" -> "known user"
      [] str = "User" -> "user"
      [] str = "New User" -> "new user"
      [] OTHER -> str

BroadcastQueueStatus(S) == BroadcastQueueStatusWs(S, Len(S.requestQueue))

RemoveAt(seq, i) == [j \in 1..(Len(seq) - 1) |-> IF j < i THEN seq[j] ELSE seq[j + 1]]

\* One test of processQueue's while condition by consumer loop i, and what follows
\* it without an await: either the next request is shifted and called, or the loop
\* ends, clears the flag and broadcasts the final queue size.
LoopHead(S, i) ==
    IF Len(S.requestQueue) > 0
    THEN [S EXCEPT !.requestQueue = Tail(@),
                   !.consumers[i] = [pc |-> "request", task |-> Head(S.requestQueue), timer |-> 0]]
    ELSE BroadcastQueueStatus([S EXCEPT !.consumers = RemoveAt(@, i), !.processing = FALSE])

\* processQueue without the test of the processing flag
ProcessQueueUnguarded(S) ==
    IF Len(S.requestQueue) = 0 THEN S
    ELSE LET s1 == BroadcastQueueStatus([S EXCEPT !.processing = TRUE])
             s2 == [s1 EXCEPT !.consumers = Append(@, [pc |-> "loop", task |-> NoTask, timer |-> 0])]
         IN IF s1.threw THEN s1 ELSE LoopHead(s2, Len(s2.consumers))

ProcessQueue(S) ==
    IF S.processing \/ Len(S.requestQueue) = 0 THEN S
    ELSE LET s1 == BroadcastQueueStatus([S EXCEPT !.processing = TRUE])
             s2 == [s1 EXCEPT !.consumers = Append(@, [pc |-> "loop", task |-> NoTask, timer |-> 0])]
         IN IF s1.threw THEN s1 ELSE LoopHead(s2, Len(s2.consumers))

\* An error raised in the executor rejects the promise, which every caller awaits
\* in a try block; processQueue is then not called
QueueRequest(S, task) ==
    LET s1 == BroadcastQueueStatus([S EXCEPT !.requestQueue = Append(@, task)])
    IN IF s1.threw THEN Caught(s1) ELSE ProcessQueue(s1)

\* getUserInfo(userId), up to the point where the request is queued; the caller's
\* continuation is kept with the task (origin) and runs when the request settles
GetUserInfo(S, userId, origin, timestamp) ==
    QueueRequest(S, [userId |-> userId, origin |-> origin, timestamp |-> timestamp])

\* ------------------------------------------------------------ auth service

\* What a GET of auth/user can come to: status 200, another status, no response
ValidationResults == {"valid", "invalid", "networkError"}

\* clearAuth: the validation timer is stopped, the state and the stored session
\* are dropped
ClearAuth(S) ==
    [S EXCEPT !.authenticated = FALSE,
              !.authState = [@ EXCEPT !.saved = FALSE, !.lastValidated = "never",
                                      !.validationFailures = 0, !.periodic = FALSE]]

\* shouldValidateToken
ShouldValidateToken(S) ==
    /\ S.authenticated
    /\ \/ S.authState.lastValidated = "never"
       \/ S.authState.lastValidated = "stale"
       \/ S.authState.validationFailures > 0

\* verifyAndUpdateAuth with the result of its request: the state after it and
\* what it returns
VerifyAndUpdateAuth(S, result) ==
    IF ~S.authenticated THEN [S |-> S, isValid |-> FALSE]
    ELSE CASE result = "valid" ->
                [S |-> [S EXCEPT !.authState = [@ EXCEPT !.lastValidated = "fresh",
                                                         !.validationFailures = 0]],
                 isValid |-> TRUE]
           [] result = "invalid" ->
                LET s1 == [S EXCEPT !.authState = [@ EXCEPT !.validationFailures = @ + 1]]
                IN [S |-> IF s1.authState.validationFailures >= MAX_VALIDATION_FAILURES
                          THEN ClearAuth(s1) ELSE s1,
                    isValid |-> FALSE]
           [] OTHER -> [S |-> S, isValid |-> FALSE]

\* getValidatedAuthCookie with the result of the validation, if it makes one:
\* the state after it and whether it returns the cookie
GetValidatedAuthCookie(S, result) ==
    IF ~S.authenticated THEN [S |-> S, cookie |-> FALSE]
    ELSE IF ShouldValidateToken(S)
         THEN LET v == VerifyAndUpdateAuth(S, result)
              IN IF ~v.isValid THEN [S |-> ClearAuth(v.S), cookie |-> FALSE]
                 ELSE [S |-> v.S, cookie |-> TRUE]
         ELSE [S |-> S, cookie |-> TRUE]

\* initialize with a stored session: the session is loaded, validated if it
\* needs to be, and the validation timer started if it is still authenticated
Initialize(S, result) ==
    LET s1 == [S EXCEPT !.authenticated = TRUE, !.authState = [@ EXCEPT !.initialized = TRUE]]
        v == VerifyAndUpdateAuth(s1, result)
        s2 == IF ShouldValidateToken(s1)
              THEN IF ~v.isValid THEN ClearAuth(v.S) ELSE v.S
              ELSE s1
    IN IF ~S.authState.saved THEN [S EXCEPT !.authState = [@ EXCEPT !.initialized = TRUE]]
       ELSE IF s2.authenticated THEN [s2 EXCEPT !.authState = [@ EXCEPT !.periodic = TRUE]]
       ELSE s2

\* ------------------------------------------------------------- log parser

\* fetchAndCacheUser without the look at the cached row
FetchAndCacheUserAlways(S, userId, timestamp) ==
    IF ~S.authenticated THEN S
    ELSE GetUserInfo(S, userId, "join", timestamp)

\* fetchAndCacheUser up to its first await.  index.ts always constructs the parser
\* with an API client, so the null-client return is not reachable.
FetchAndCacheUser(S, userId, timestamp) ==
    IF ~S.authenticated THEN S
    ELSE LET cachedUser == GetUser(S, userId)
             isVisitor == cachedUser # NoUser /\ ToLowerCase(cachedUser.trustRank) = "visitor"
         IN IF cachedUser # NoUser /\ cachedUser.trustRank # "unknown" /\ ~isVisitor
            THEN S
            ELSE GetUserInfo(S, userId, "join", timestamp)

\* fault # 0: recordWorldActivity throws, the catch logs it.  The catch also takes
\* an error raised by broadcastLog; the last broadcastPlayerCount is outside the try
ParseWorldLeave(line, S, fault) ==
    IF line.kind = "OnLeftRoom" /\ S.currentWorldName # Null /\ S.currentWorldId # Null
    THEN LET s1 == IF S.currentSessionUUID # NoSession /\ fault = 0
                   THEN Caught(BroadcastStats(
                          BroadcastLog(
                            RecordWorldActivity(S, S.currentSessionUUID, "Leaving World",
                                                S.currentWorldName, line.ts, S.currentWorldId),
                            "Leaving World", S.currentSessionUUID, S.currentWorldName, line.ts)))
                   ELSE S
         IN BroadcastPlayerCount(
              [s1 EXCEPT !.currentWorldName = Null, !.currentWorldId = Null,
                         !.currentSessionUUID = NoSession, !.currentPlayersInWorld = {}], 0)
    ELSE S

ParseWorldJoinSequence(line, a) ==
    [worldName |-> IF line.kind = "EnteringRoom" THEN line.name ELSE a.worldName,
     worldId |-> IF line.kind = "Joining" THEN line.id ELSE a.worldId,
     worldJoinTimestamp |-> IF line.kind = "JoinedRoom" THEN line.ts ELSE a.worldJoinTimestamp]

\* handleWorldJoin without its isDifferentInstance / wasNotInWorld test
HandleWorldJoinUnguarded(worldName, worldId, timestamp, S, fault) ==
    LET uuid == GenerateSessionUUID(S)
        s1 == [S EXCEPT !.uuidCounter = uuid,
                        !.currentSessionUUID = uuid,
                        !.currentWorldName = worldName,
                        !.currentWorldId = worldId,
                        !.currentPlayersInWorld = {}]
    IN IF fault = 0
       THEN Caught(BroadcastPlayerCount(
              BroadcastLog(
                BroadcastSession(
                  RecordWorldActivity(s1, uuid, "Joining World", worldName, timestamp, worldId),
                  uuid),
                "Joining World", uuid, worldName, timestamp), 0))
       ELSE s1

\* handleWorldJoin recording the new session and leaving the context as it was
HandleWorldJoinDeferred(worldName, worldId, timestamp, S, fault) ==
    LET isDifferentInstance == worldName # S.currentWorldName \/ worldId # S.currentWorldId
        wasNotInWorld == S.currentWorldName = Null
    IN IF isDifferentInstance \/ wasNotInWorld
       THEN LET uuid == GenerateSessionUUID(S)
                s1 == [S EXCEPT !.uuidCounter = uuid]
            IN IF fault = 0
               THEN Caught(BroadcastPlayerCount(
                      BroadcastLog(
                        BroadcastSession(
                          RecordWorldActivity(s1, uuid, "Joining World", worldName, timestamp, worldId),
                          uuid),
                        "Joining World", uuid, worldName, timestamp), 0))
               ELSE s1
       ELSE S

HandleWorldJoin(worldName, worldId, timestamp, S, fault) ==
    LET isDifferentInstance == worldName # S.currentWorldName \/ worldId # S.currentWorldId
        wasNotInWorld == S.currentWorldName = Null
    IN IF isDifferentInstance \/ wasNotInWorld
       THEN LET uuid == GenerateSessionUUID(S)
                s1 == [S EXCEPT !.uuidCounter = uuid,
                                !.currentSessionUUID = uuid,
                                !.currentWorldName = worldName,
                                !.currentWorldId = worldId,
                                !.currentPlayersInWorld = {}]
            IN IF fault = 0
               THEN Caught(BroadcastPlayerCount(
                      BroadcastLog(
                        BroadcastSession(
                          RecordWorldActivity(s1, uuid, "Joining World", worldName, timestamp, worldId),
                          uuid),
                        "Joining World", uuid, worldName, timestamp), 0))
               ELSE s1
       ELSE S

\* parsePlayerJoin without its try block: the error of the transaction leaves it
ParsePlayerJoinUncaught(line, S, shouldFetchUsers, fault) ==
    IF line.kind = "OnPlayerJoined"
    THEN LET s1 == [S EXCEPT !.currentPlayersInWorld = @ \cup {line.user}]
         IN IF s1.currentSessionUUID # NoSession
            THEN LET txn == RecordPlayerJoinTransaction(s1, line.user, s1.currentSessionUUID, line.ts,
                                 IF s1.currentWorldName # Null THEN s1.currentWorldName ELSE "Unknown",
                                 fault)
                     s2 == IF shouldFetchUsers THEN FetchAndCacheUser(txn.S, line.user, line.ts)
                           ELSE txn.S
                 IN IF txn.threw THEN [txn.S EXCEPT !.threw = TRUE]
                    ELSE BroadcastPlayerCount(
                           BroadcastLog(s2, "Player Joined", s1.currentSessionUUID, line.user, line.ts),
                           Cardinality(s1.currentPlayersInWorld))
            ELSE s1
    ELSE S

\* parsePlayerJoin going on to the lookup and the broadcasts whether the
\* transaction was committed or not
ParsePlayerJoinRegardless(line, S, shouldFetchUsers, fault) ==
    IF line.kind = "OnPlayerJoined"
    THEN LET s1 == [S EXCEPT !.currentPlayersInWorld = @ \cup {line.user}]
         IN IF s1.currentSessionUUID # NoSession
            THEN LET txn == RecordPlayerJoinTransaction(s1, line.user, s1.currentSessionUUID, line.ts,
                                 IF s1.currentWorldName # Null THEN s1.currentWorldName ELSE "Unknown",
                                 fault)
                     s2 == IF shouldFetchUsers THEN FetchAndCacheUser(txn.S, line.user, line.ts)
                           ELSE txn.S
                 IN Caught(BroadcastPlayerCount(
                           BroadcastLog(s2, "Player Joined", s1.currentSessionUUID, line.user, line.ts),
                           Cardinality(s1.currentPlayersInWorld)))
            ELSE s1
    ELSE S

ParsePlayerJoin(line, S, shouldFetchUsers, fault) ==
    IF line.kind = "OnPlayerJoined"
    THEN LET s1 == [S EXCEPT !.currentPlayersInWorld = @ \cup {line.user}]
         IN IF s1.currentSessionUUID # NoSession
            THEN LET txn == RecordPlayerJoinTransaction(s1, line.user, s1.currentSessionUUID, line.ts,
                                 IF s1.currentWorldName # Null THEN s1.currentWorldName ELSE "Unknown",
                                 fault)
                     s2 == IF shouldFetchUsers THEN FetchAndCacheUser(txn.S, line.user, line.ts)
                           ELSE txn.S
                 IN IF txn.threw THEN txn.S
                    ELSE Caught(BroadcastPlayerCount(
                           BroadcastLog(s2, "Player Joined", s1.currentSessionUUID, line.user, line.ts),
                           Cardinality(s1.currentPlayersInWorld)))
            ELSE s1
    ELSE S

ParsePlayerLeave(line, S, fault) ==
    IF line.kind = "OnPlayerLeft"
    THEN LET s1 == [S EXCEPT !.currentPlayersInWorld = @ \ {line.user}]
         IN IF s1.currentSessionUUID # NoSession
            THEN LET txn == RecordPlayerLeaveTransaction(s1, line.user, s1.currentSessionUUID, line.ts,
                                 IF s1.currentWorldName # Null THEN s1.currentWorldName ELSE "Unknown",
                                 fault)
                 IN IF txn.threw THEN txn.S
                    ELSE Caught(BroadcastPlayerCount(
                           BroadcastLog(txn.S, "Player Left", s1.currentSessionUUID, line.user, line.ts),
                           Cardinality(s1.currentPlayersInWorld)))
            ELSE s1
    ELSE S

\* One iteration of parseLogContent's loop: a holds worldName, worldId and
\* worldJoinTimestamp, fault is the write of this line that the store fails.  An
\* error that parseWorldLeave lets out ends the iteration and the loop
ParseLine(line, a, S, shouldFetchUsers, fault) ==
    LET s1 == ParseWorldLeave(line, S, fault)
        a1 == ParseWorldJoinSequence(line, a)
        complete == a1.worldJoinTimestamp # NoStamp /\ a1.worldName # Null /\ a1.worldId # Null
        s2 == IF complete
              THEN HandleWorldJoin(a1.worldName, a1.worldId, a1.worldJoinTimestamp, s1, fault)
              ELSE s1
        a2 == IF complete THEN EmptyAcc ELSE a1
        s3 == ParsePlayerJoin(line, s2, shouldFetchUsers, fault)
        s4 == ParsePlayerLeave(line, s3, fault)
    IN IF s1.threw THEN [acc |-> a, S |-> s1] ELSE [acc |-> a2, S |-> s4]

\* parseLogContent on a batch of lines, no write failing
RECURSIVE ParseLines(_, _, _, _)
ParseLines(lines, a, S, shouldFetchUsers) ==
    IF lines = << >> \/ S.threw THEN S
    ELSE LET r == ParseLine(Head(lines), a, S, shouldFetchUsers, 0)
         IN ParseLines(Tail(lines), r.acc, r.S, shouldFetchUsers)

ParseLogContent(lines, S, shouldFetchUsers) == ParseLines(lines, EmptyAcc, S, shouldFetchUsers)

\* ---------------------------------------------------------------- actions

\* Assign the record S to the variables it was built from
Commit(S) ==
    /\ currentWorldName' = S.currentWorldName
    /\ currentWorldId' = S.currentWorldId
    /\ currentSessionUUID' = S.currentSessionUUID
    /\ currentPlayersInWorld' = S.currentPlayersInWorld
    /\ world_activity' = S.world_activity
    /\ player_activity' = S.player_activity
    /\ user_encounters' = S.user_encounters
    /\ cached_users' = S.cached_users
    /\ requestQueue' = S.requestQueue
    /\ processing' = S.processing
    /\ consumers' = S.consumers
    /\ sinceDone' = S.sinceDone
    /\ wsSessionUUID' = S.wsSessionUUID
    /\ wsPlayerCount' = S.wsPlayerCount
    /\ sent' = S.sent
    /\ uuidCounter' = S.uuidCounter
    /\ authenticated' = S.authenticated
    /\ paused' = S.paused
    /\ ovrtConnected' = S.ovrtConnected
    /\ ovrtWebSocket' = S.ovrtWebSocket
    /\ reconnectTimer' = S.reconnectTimer
    /\ xsoChecked' = S.xsoChecked
    /\ delivered' = S.delivered
    /\ clients' = S.clients
    /\ readyState' = S.readyState
    /\ sendRaises' = S.sendRaises
    /\ received' = S.received
    /\ threw' = S.threw
    /\ shutdown' = S.shutdown
    /\ authState' = S.authState

\* The state a handler starts from: sent holds what the handler itself broadcasts
Fresh == [St EXCEPT !.sent = << >>, !.delivered = << >>, !.received = NothingReceived]

\* The log's stamps never decrease: a new line is stamped one more than the
\* number of events recorded so far
NextStamp == Len(world_activity) + Len(player_activity) + 1

RoomLines(names, ids) ==
    { Line("EnteringRoom", n, Null, Null, NoStamp) : n \in names }
    \cup { Line("Joining", Null, i, Null, NoStamp) : i \in ids }
    \cup { Line(k, Null, Null, Null, NextStamp) : k \in {"JoinedRoom", "OnLeftRoom"} }

PlayerLines(users) ==
    { Line(k, Null, Null, u, NextStamp) : k \in {"OnPlayerJoined", "OnPlayerLeft"}, u \in users }

\* The writes of a line's handler that the store may fail: none (0), the one
\* world_activity insert of a room leave or of a completed room join (1), or the
\* k-th write of a join/leave transaction (the first only when it is attempted)
Faults(line) ==
    IF line.kind \in {"OnPlayerJoined", "OnPlayerLeft"}
    THEN IF cached_users[line.user] = NoUser THEN 0..3 ELSE {0, 2, 3}
    ELSE LET a1 == ParseWorldJoinSequence(line, acc)
         IN IF \/ line.kind = "OnLeftRoom"
               \/ a1.worldJoinTimestamp # NoStamp /\ a1.worldName # Null /\ a1.worldId # Null
            THEN 0..1
            ELSE {0}

\* The variables hold the record S
Holds(S) ==
    /\ currentWorldName = S.currentWorldName
    /\ currentWorldId = S.currentWorldId
    /\ currentSessionUUID = S.currentSessionUUID
    /\ currentPlayersInWorld = S.currentPlayersInWorld
    /\ world_activity = S.world_activity
    /\ player_activity = S.player_activity
    /\ user_encounters = S.user_encounters
    /\ cached_users = S.cached_users
    /\ requestQueue = S.requestQueue
    /\ processing = S.processing
    /\ consumers = S.consumers
    /\ sinceDone = S.sinceDone
    /\ wsSessionUUID = S.wsSessionUUID
    /\ wsPlayerCount = S.wsPlayerCount
    /\ sent = S.sent
    /\ uuidCounter = S.uuidCounter
    /\ authenticated = S.authenticated
    /\ paused = S.paused
    /\ ovrtConnected = S.ovrtConnected
    /\ ovrtWebSocket = S.ovrtWebSocket
    /\ reconnectTimer = S.reconnectTimer
    /\ xsoChecked = S.xsoChecked
    /\ delivered = S.delivered
    /\ clients = S.clients
    /\ readyState = S.readyState
    /\ sendRaises = S.sendRaises
    /\ received = S.received
    /\ threw = S.threw
    /\ shutdown = S.shutdown
    /\ authState = S.authState

\* The program as constructed, the client process not seen yet
\* No file of the log directory is known, no stream is open, no timer is set
TailIdle ==
    /\ fileSize = [f \in Files |-> 0]
    /\ fileCount = 0
    /\ currentLogFile = NoFile
    /\ lastReadPosition = 0
    /\ logReadInterval = FALSE
    /\ streams = << >>
    /\ historySize = [f \in Files |-> NoSize]

Init ==
    /\ Holds(InitSt)
    /\ acc = EmptyAcc
    /\ lastLine = NoLine
    /\ inBatch = FALSE
    /\ shouldFetch = FALSE
    /\ isRunning = FALSE
    /\ logText = [f \in Files |-> << >>]
    /\ TailIdle

\* The program once the client process is running and the backfill of its log
\* file, which holds the three lines of the join of room Alpha, has been parsed
InRoom ==
    ParseLogContent(<< Line("EnteringRoom", "Alpha", Null, Null, NoStamp),
                       Line("Joining", Null, "wrld_1", Null, NoStamp),
                       Line("JoinedRoom", Null, Null, Null, 1) >>,
                    InitSt, FALSE)

InitInRoom ==
    /\ Holds([InRoom EXCEPT !.sent = << >>])
    /\ acc = EmptyAcc
    /\ lastLine = NoLine
    /\ inBatch = FALSE
    /\ shouldFetch = FALSE
    /\ isRunning = TRUE
    /\ logText = [f \in Files |-> << >>]
    /\ TailIdle

\* parseLogContent is entered with a batch of complete lines (one chunk of a read
\* of the active file): shouldFetchUsers is false for the first read of a file
BatchStart(fetch) ==
    /\ isRunning /\ ~inBatch
    /\ inBatch' = TRUE
    /\ acc' = EmptyAcc
    /\ lastLine' = NoLine
    /\ shouldFetch' = fetch
    /\ sent' = << >>
    /\ delivered' = << >>
    /\ received' = NothingReceived
    /\ UNCHANGED <<vrVars, subVars, shutdown, authState>>
    /\ UNCHANGED <<ctxVars, dbVars, apiVars, wsSessionUUID, wsPlayerCount, envVars, dirVars, tailVars>>

\* one iteration of the loop of parseLogContent
ProcessLine(line, fault) ==
    /\ inBatch
    /\ LET r == ParseLine(line, acc, Fresh, shouldFetch, fault)
       IN /\ Commit(r.S)
          /\ acc' = r.acc
          /\ lastLine' = line
    /\ UNCHANGED <<inBatch, shouldFetch, isRunning, dirVars, tailVars>>

\* parseLogContent returns
BatchEnd ==
    /\ inBatch
    /\ inBatch' = FALSE
    /\ acc' = EmptyAcc
    /\ lastLine' = NoLine
    /\ sent' = << >>
    /\ delivered' = << >>
    /\ received' = NothingReceived
    /\ UNCHANGED <<vrVars, subVars, shutdown, authState>>
    /\ UNCHANGED <<shouldFetch, ctxVars, dbVars, apiVars, wsSessionUUID, wsPlayerCount, envVars,
                   dirVars, tailVars>>

\* VRChatMonitor.monitor with the process found running (currentState) or gone:
\* when it has gone the poll timer is cleared, the file and the context are
\* forgotten and the closing is broadcast; read streams that are open stay open
MonitorTick(currentState) ==
    /\ ~inBatch
    /\ currentState # isRunning
    /\ IF currentState
       THEN /\ Commit(Fresh)
            /\ UNCHANGED <<currentLogFile, logReadInterval>>
       ELSE /\ Commit(BroadcastVRChatClosed(
                    [Fresh EXCEPT !.currentWorldName = Null, !.currentWorldId = Null,
                                  !.currentSessionUUID = NoSession, !.currentPlayersInWorld = {}]))
            /\ IF currentLogFile # NoFile
               THEN logReadInterval' = FALSE /\ currentLogFile' = NoFile
               ELSE UNCHANGED <<currentLogFile, logReadInterval>>
    /\ isRunning' = IF threw' THEN isRunning ELSE currentState
    /\ UNCHANGED <<batchVars, dirVars, lastReadPosition, streams, historySize>>

\* the auth collaborator logs in or loses its session
SetAuthenticated(value) ==
    /\ ~inBatch
    /\ authenticated # value
    /\ Commit([Fresh EXCEPT !.authenticated = value,
                             !.authState = IF value THEN LoggedIn ELSE NoAuth])
    /\ UNCHANGED <<batchVars, isRunning, dirVars, tailVars>>

\* POST /api/users/:userId/refresh, up to the await of getUserInfo
RefreshUser(userId) ==
    /\ ~inBatch
    /\ GetUser(St, userId) # NoUser
    /\ Commit(GetUserInfo(Fresh, userId, "refresh", NoStamp))
    /\ UNCHANGED <<batchVars, isRunning, dirVars, tailVars>>

\* GET /api/users/:userId/live, up to the await of getUserInfo
LiveUser(userId) ==
    /\ ~inBatch
    /\ Commit(GetUserInfo(Fresh, userId, "live", NoStamp))
    /\ UNCHANGED <<batchVars, isRunning, dirVars, tailVars>>

\* The notification a participant join's successful lookup ends with: the one
\* for a nuisance player first, else the one for a visitor
NotifyAbout(S, userId, enrichedUser) ==
    IF Property(enrichedUser, "isNuisance", FALSE) /\ Property(enrichedUser, "nuisanceType", Null) # Null
    THEN SendNuisanceNotification(S, userId, Property(enrichedUser, "nuisanceType", Null))
    ELSE IF ToLowerCase(enrichedUser.trustRank) = "visitor"
         THEN SendVisitorNotification(S, userId)
         ELSE S

\* the continuation of getUserInfo with the saveUser of a successful lookup left out
ContinuationWithoutSave(S, task, outcome, tags) ==
    IF outcome = "ok" /\ task.origin \in {"join", "refresh"}
    THEN LET enrichedUser == EnrichUserData(tags)
         IN BroadcastUserCached(
              IF task.origin = "join" THEN NotifyAbout(S, task.userId, enrichedUser) ELSE S,
              task.userId, enrichedUser.trustRank)
    ELSE S

\* the continuation of getUserInfo asking again when the lookup failed
ContinuationRetrying(S, task, outcome, tags) ==
    IF outcome = "ok" /\ task.origin \in {"join", "refresh"}
    THEN LET enrichedUser == EnrichUserData(tags)
             s1 == SaveUser(S, task.userId, enrichedUser.trustRank)
         IN BroadcastUserCached(
              IF task.origin = "join" THEN NotifyAbout(s1, task.userId, enrichedUser) ELSE s1,
              task.userId, enrichedUser.trustRank)
    ELSE IF outcome = "error" THEN GetUserInfo(S, task.userId, task.origin, task.timestamp)
    ELSE S

\* What the caller of getUserInfo does once the request has settled
Continuation(S, task, outcome, tags) ==
    IF outcome = "ok" /\ task.origin \in {"join", "refresh"}
    THEN LET enrichedUser == EnrichUserData(tags)
             s1 == SaveUser(S, task.userId, enrichedUser.trustRank)
         IN BroadcastUserCached(
              IF task.origin = "join" THEN NotifyAbout(s1, task.userId, enrichedUser) ELSE s1,
              task.userId, enrichedUser.trustRank)
    ELSE S

\* processQueue going on after a request without its broadcast of the queue size
AfterRequestSilent(S, i) ==
    LET s1 == [S EXCEPT !.sinceDone = 0]
    IN IF s1.threw THEN s1
       ELSE IF Len(s1.requestQueue) > 0
       THEN [s1 EXCEPT !.consumers[i] = [pc |-> "delay", task |-> NoTask, timer |-> RATE_LIMIT_DELAY]]
       ELSE LoopHead(s1, i)

\* The request of consumer loop i settles: processQueue broadcasts the queue size,
\* then waits RATE_LIMIT_DELAY if requests are left, else ends its loop.  An error
\* raised by the broadcast leaves processQueue: its loop is gone
AfterRequest(S, i) ==
    LET s1 == BroadcastQueueStatus([S EXCEPT !.sinceDone = 0])
    IN IF s1.threw THEN [s1 EXCEPT !.consumers = RemoveAt(@, i)]
       ELSE IF Len(s1.requestQueue) > 0
       THEN [s1 EXCEPT !.consumers[i] = [pc |-> "delay", task |-> NoTask, timer |-> RATE_LIMIT_DELAY]]
       ELSE LoopHead(s1, i)

\* The request of consumer loop i settles with an outcome: processQueue goes on,
\* then the caller of getUserInfo; an error raised by the caller's broadcast is
\* taken by its catch block, one raised in processQueue by nothing
Settle(S, i, task, outcome, tags) ==
    LET s1 == AfterRequest(S, i)
    IN [Caught(Continuation(Caught(s1), task, outcome, tags)) EXCEPT !.threw = s1.threw]

RequestComplete(i, outcome, tags) ==
    /\ ~inBatch
    /\ i \in DOMAIN consumers
    /\ consumers[i].pc = "request"
    /\ outcome = "ok" => cached_users[consumers[i].task.userId].timesEncountered < MaxSaves
    /\ Commit(Settle(Fresh, i, consumers[i].task, outcome, tags))
    /\ UNCHANGED <<batchVars, isRunning, dirVars, tailVars>>

\* the setTimeout of consumer loop i fires
DelayElapsed(i) ==
    /\ ~inBatch
    /\ i \in DOMAIN consumers
    /\ consumers[i].pc = "delay"
    /\ consumers[i].timer = 0
    /\ Commit(LoopHead(Fresh, i))
    /\ UNCHANGED <<batchVars, isRunning, dirVars, tailVars>>

\* half a RATE_LIMIT_DELAY passes
Tick ==
    /\ ~inBatch
    /\ \/ \E i \in DOMAIN consumers : consumers[i].timer > 0
       \/ sinceDone \in 0..(RATE_LIMIT_DELAY - 1)
    /\ consumers' = [i \in DOMAIN consumers |->
                        IF consumers[i].timer > 0
                        THEN [consumers[i] EXCEPT !.timer = @ - 1]
                        ELSE consumers[i]]
    /\ sinceDone' = IF sinceDone \in 0..(RATE_LIMIT_DELAY - 1) THEN sinceDone + 1 ELSE sinceDone
    /\ sent' = << >>
    /\ delivered' = << >>
    /\ received' = NothingReceived
    /\ UNCHANGED <<vrVars, subVars, shutdown, authState>>
    /\ UNCHANGED <<ctxVars, batchVars, dbVars, requestQueue, processing,
                   wsSessionUUID, wsPlayerCount, envVars, dirVars, tailVars>>

\* The runs explored stay within the bounds
Bounded(maxSessions, maxPlayerRows) ==
    /\ uuidCounter' <= maxSessions
    /\ Len(player_activity') <= maxPlayerRows
    /\ Len(requestQueue') <= MaxQueue

\* The session state machine: the event extractor fed room lines by the tail
\* reader while the client process comes and goes and the store fails writes.
\* Participant lines are left to SpecPlayers.
SessionLines == RoomLines(WorldNames, WorldIds)

Next ==
    \/ BatchStart(TRUE)
    \/ \E line \in SessionLines : \E fault \in Faults(line) :
          ProcessLine(line, fault) /\ Bounded(MaxSessions, 0)
    \/ BatchEnd
    \/ \E currentState \in BOOLEAN : MonitorTick(currentState)

Spec == Init /\ [][Next]_vars

\* Participants of one room: once the client process is seen, the event extractor
\* is fed the lines of visits to the room Alpha, with the store failing any write
VisitLines == RoomLines({"Alpha"}, {"wrld_1"}) \cup PlayerLines(Users)

NextPlayers ==
    \/ BatchStart(TRUE)
    \/ \E line \in VisitLines : \E fault \in Faults(line) :
          ProcessLine(line, fault) /\ Bounded(MaxVisits, MaxPlayerRows)
    \/ BatchEnd
    \/ MonitorTick(TRUE)

SpecPlayers == Init /\ [][NextPlayers]_vars

\* Repeated room joins: the event extractor fed the lines of visits to the room
\* Alpha and of its participants, no write failing
RejoinLines == RoomLines({"Alpha"}, {"wrld_1"}) \cup PlayerLines(Users)

NextRejoin ==
    \/ BatchStart(TRUE)
    \/ \E line \in RejoinLines : ProcessLine(line, 0) /\ Bounded(MaxSessions, MaxPlayerRows)
    \/ BatchEnd
    \/ \E currentState \in BOOLEAN : MonitorTick(currentState)

SpecRejoin == Init /\ [][NextRejoin]_vars

\* Identity enrichment: in the room Alpha, joins of the participant usr_a, read
\* as backfill or live, enqueue lookups while the operator logs in and out and
\* asks for refreshes and live profiles of any user, requests settle and time
\* passes; no write fails
EnrichLines == { l \in PlayerLines({"usr_a"}) : l.kind = "OnPlayerJoined" }

NextEnrich ==
    \/ \E fetch \in BOOLEAN : BatchStart(fetch)
    \/ \E line \in EnrichLines : ProcessLine(line, 0) /\ Bounded(MaxVisits, MaxJoins)
    \/ BatchEnd
    \/ \E value \in BOOLEAN : SetAuthenticated(value)
    \/ \E userId \in Users : RefreshUser(userId) /\ Bounded(MaxVisits, MaxJoins)
    \/ \E userId \in Users : LiveUser(userId) /\ Bounded(MaxVisits, MaxJoins)
    \/ \E i \in DOMAIN consumers : \E outcome \in Outcomes : \E tags \in TagSets :
          (outcome # "ok" => tags = {}) /\ RequestComplete(i, outcome, tags)
    \/ \E i \in DOMAIN consumers : DelayElapsed(i)
    \/ Tick

SpecEnrich == InitInRoom /\ [][NextEnrich]_vars

\* --------------------------------------- VR notification service at run time

\* 30000 ms, in ticks of 15 s
RECONNECT_DELAY == 2

\* POST /api/notifications/pause
PauseNotifications ==
    /\ ~inBatch
    /\ Commit(Caught(BroadcastNotificationStatus([Fresh EXCEPT !.paused = TRUE], TRUE)))
    /\ UNCHANGED <<batchVars, isRunning, dirVars, tailVars>>

\* POST /api/notifications/resume
ResumeNotifications ==
    /\ ~inBatch
    /\ Commit(Caught(BroadcastNotificationStatus([Fresh EXCEPT !.paused = FALSE], FALSE)))
    /\ UNCHANGED <<batchVars, isRunning, dirVars, tailVars>>

\* ovrtWebSocket.on('open')
OvrtOpen ==
    /\ ~inBatch
    /\ ovrtWebSocket = "connecting"
    /\ Commit([Fresh EXCEPT !.ovrtWebSocket = "open", !.ovrtConnected = TRUE])
    /\ UNCHANGED <<batchVars, isRunning, dirVars, tailVars>>

\* The connection is refused, reset or closed by OVR Toolkit: the socket leaves
\* its state at once, its listeners run later ('error' then 'close' when it
\* failed, 'close' alone when it was closed in order)
OvrtConnectionEnds(failed) ==
    /\ ~inBatch
    /\ ovrtWebSocket \in {"connecting", "open"}
    /\ ovrtWebSocket = "connecting" => failed
    /\ Commit([Fresh EXCEPT !.ovrtWebSocket = IF failed THEN "failing" ELSE "closing"])
    /\ UNCHANGED <<batchVars, isRunning, dirVars, tailVars>>

\* ovrtWebSocket.on('error')
OvrtError ==
    /\ ~inBatch
    /\ ovrtWebSocket = "failing"
    /\ Commit([Fresh EXCEPT !.ovrtWebSocket = "closing", !.ovrtConnected = FALSE])
    /\ UNCHANGED <<batchVars, isRunning, dirVars, tailVars>>

\* the 'close' listener without its setTimeout
OvrtCloseWithoutRetry ==
    /\ ~inBatch
    /\ ovrtWebSocket = "closing"
    /\ Commit([Fresh EXCEPT !.ovrtWebSocket = "closed", !.ovrtConnected = FALSE])
    /\ UNCHANGED <<batchVars, isRunning, dirVars, tailVars>>

\* ovrtWebSocket.on('close'): the reconnection is scheduled
OvrtClose ==
    /\ ~inBatch
    /\ ovrtWebSocket = "closing"
    /\ Commit([Fresh EXCEPT !.ovrtWebSocket = "closed", !.ovrtConnected = FALSE,
                            !.reconnectTimer = RECONNECT_DELAY])
    /\ UNCHANGED <<batchVars, isRunning, dirVars, tailVars>>

\* half a RECONNECT_DELAY passes
ReconnectTick ==
    /\ ~inBatch
    /\ reconnectTimer > 0
    /\ Commit([Fresh EXCEPT !.reconnectTimer = @ - 1])
    /\ UNCHANGED <<batchVars, isRunning, dirVars, tailVars>>

\* the setTimeout of the 'close' listener fires: initializeOVRToolkit
ReconnectTimerFires ==
    /\ ~inBatch
    /\ reconnectTimer = 0
    /\ Commit(InitializeOVRToolkit(Fresh))
    /\ UNCHANGED <<batchVars, isRunning, dirVars, tailVars>>

\* Notifications: logged in and in the room Alpha, live joins of usr_a are looked
\* up while the connection to OVR Toolkit comes and goes and the operator pauses
\* and resumes the notifications
InitNotify ==
    /\ Holds([InRoom EXCEPT !.sent = << >>, !.authenticated = TRUE, !.authState = LoggedIn])
    /\ acc = EmptyAcc
    /\ lastLine = NoLine
    /\ inBatch = FALSE
    /\ shouldFetch = FALSE
    /\ isRunning = TRUE
    /\ logText = [f \in Files |-> << >>]
    /\ TailIdle

NextNotify ==
    \/ BatchStart(TRUE)
    \/ \E line \in EnrichLines : ProcessLine(line, 0) /\ Bounded(MaxVisits, MaxJoins)
    \/ BatchEnd
    \/ \E i \in DOMAIN consumers : \E outcome \in Outcomes : \E tags \in TagSets :
          (outcome # "ok" => tags = {}) /\ RequestComplete(i, outcome, tags)
    \/ \E i \in DOMAIN consumers : DelayElapsed(i)
    \/ Tick
    \/ PauseNotifications
    \/ ResumeNotifications
    \/ OvrtOpen
    \/ \E failed \in BOOLEAN : OvrtConnectionEnds(failed)
    \/ OvrtError
    \/ OvrtClose
    \/ ReconnectTick
    \/ ReconnectTimerFires

SpecNotify == InitNotify /\ [][NextNotify]_vars

\* The same under the scheduling of the event loop: a batch being parsed ends,
\* a listener whose event has happened runs, time passes and a timer that has
\* elapsed fires
SpecNotifyLive ==
    /\ InitNotify
    /\ [][NextNotify]_vars
    /\ SF_vars(BatchEnd)
    /\ SF_vars(OvrtError)
    /\ SF_vars(OvrtClose)
    /\ SF_vars(ReconnectTick)
    /\ SF_vars(ReconnectTimerFires)

\* ------------------------------------------------------ web server subscribers

\* clients.delete(ws)
ClientsDelete(S, ws) == [S EXCEPT !.clients = SelectSeq(@, LAMBDA c : c # ws)]

\* The rows the initial data carries.  getWorldActivity(limit) and
\* getPlayerActivityRecent(limit) give the newest limit rows,
\* getPlayerActivityBySession(uuid) every row of that session
NewestRows(rows, limit) ==
    { rows[i] : i \in { j \in DOMAIN rows : j > Len(rows) - limit } }

GetWorldActivity(S, limit) == NewestRows(S.world_activity, limit)

GetPlayerActivityBySession(S, sessionUuid) ==
    { S.player_activity[i] :
        i \in { j \in DOMAIN S.player_activity : S.player_activity[j].session_uuid = sessionUuid } }

GetPlayerActivityRecent(S, limit) == NewestRows(S.player_activity, limit)

\* worldLogs and playerLogs of the 'connection' handler: the player rows are those
\* of the web server's currentSessionUUID when it has one
InitialWorldLogs(S) == GetWorldActivity(S, recentActivityLimit)

InitialPlayerLogs(S) ==
    IF S.wsSessionUUID # NoSession
    THEN GetPlayerActivityBySession(S, S.wsSessionUUID)
    ELSE GetPlayerActivityRecent(S, recentActivityLimit)

\* The initial data: currentSession and playerCount are the web server's own
\* fields, notificationsPaused is asked of the notification service
InitialData(S) ==
    Msg("initialData", IF S.paused THEN "paused" ELSE "notPaused", Null,
        S.wsSessionUUID, S.wsPlayerCount)

\* wss.on('connection'): the socket joins the set, then the initial data is sent
\* to it inside a try block
WsConnection(ws) ==
    /\ ~inBatch
    /\ readyState[ws] = "none"
    /\ LET s1 == [Fresh EXCEPT !.clients = Append(@, ws), !.readyState[ws] = "open"]
       IN Commit(Caught(ForEachSend(s1, <<ws>>, InitialData(s1))))
    /\ UNCHANGED <<batchVars, isRunning, dirVars, tailVars>>

\* From now on a send to this open socket raises an error
SendStartsRaising(ws) ==
    /\ ~inBatch
    /\ readyState[ws] = "open"
    /\ ws \notin sendRaises
    /\ Commit([Fresh EXCEPT !.sendRaises = @ \cup {ws}])
    /\ UNCHANGED <<batchVars, isRunning, dirVars, tailVars>>

\* The browser starts the closing handshake: the socket is closing until its
\* 'close' event
TransportCloses(ws) ==
    /\ ~inBatch
    /\ readyState[ws] = "open"
    /\ Commit([Fresh EXCEPT !.readyState[ws] = "closing"])
    /\ UNCHANGED <<batchVars, isRunning, dirVars, tailVars>>

\* ws.on('error'): the connection failed; the socket is closing until its 'close'
\* event, which follows
WsError(ws) ==
    /\ ~inBatch
    /\ readyState[ws] = "open"
    /\ Commit(ClientsDelete([Fresh EXCEPT !.readyState[ws] = "closing"], ws))
    /\ UNCHANGED <<batchVars, isRunning, dirVars, tailVars>>

\* ws.on('close')
WsClose(ws) ==
    /\ ~inBatch
    /\ readyState[ws] = "closing"
    /\ Commit(ClientsDelete([Fresh EXCEPT !.readyState[ws] = "closed"], ws))
    /\ UNCHANGED <<batchVars, isRunning, dirVars, tailVars>>

\* A visit with browsers subscribing: the client is in a room, nobody is logged
\* in to the API, players join and leave and the room is left
InitSubscribers ==
    /\ Holds([InRoom EXCEPT !.sent = << >>])
    /\ acc = EmptyAcc
    /\ lastLine = NoLine
    /\ inBatch = FALSE
    /\ shouldFetch = FALSE
    /\ isRunning = TRUE
    /\ logText = [f \in Files |-> << >>]
    /\ TailIdle

SubscriberLines == PlayerLines({"usr_a"}) \cup {Line("OnLeftRoom", Null, Null, Null, NextStamp)}

\* An error that no catch block took ends the process
NextSubscribers ==
    \/ ~threw /\ BatchStart(TRUE)
    \/ \E line \in SubscriberLines : ~threw /\ ProcessLine(line, 0) /\ Bounded(MaxVisits, MaxEvents)
    \/ ~threw /\ BatchEnd
    \/ \E ws \in Subscribers : ~threw /\ WsConnection(ws)
    \/ \E ws \in Subscribers : ~threw /\ SendStartsRaising(ws)
    \/ \E ws \in Subscribers : ~threw /\ TransportCloses(ws)
    \/ \E ws \in Subscribers : ~threw /\ WsError(ws)
    \/ \E ws \in Subscribers : ~threw /\ WsClose(ws)
    \/ ~threw /\ PauseNotifications
    \/ ~threw /\ ResumeNotifications
    \/ ~threw /\ MonitorTick(FALSE)

SpecSubscribers == InitSubscribers /\ [][NextSubscribers]_vars

\* Failing writes with lookups: logged in and in the room Alpha, the event
\* extractor is fed the lines of visits to that room and of the participant usr_a
\* with the store failing any write, while the lookup asked for is answered
FaultLines == RoomLines({"Alpha"}, {"wrld_1"}) \cup PlayerLines({"usr_a"})

NextFaults ==
    \/ BatchStart(TRUE)
    \/ \E line \in FaultLines : \E fault \in Faults(line) :
          ProcessLine(line, fault) /\ Bounded(MaxSessions, MaxPlayerRows)
    \/ BatchEnd
    \/ \E i \in DOMAIN consumers : \E outcome \in {"ok", "error"} :
          RequestComplete(i, outcome, IF outcome = "ok" THEN {"system_trust_basic"} ELSE {})

SpecFaults == InitNotify /\ [][NextFaults]_vars

\* Cached identities: logged in and in the room Alpha, usr_a joins and leaves,
\* the lookups of the joins are answered with any tags or fail, and the operator
\* asks for refreshes of the cached users
IdentityLines == PlayerLines({"usr_a"})

NextIdentity ==
    \/ BatchStart(TRUE)
    \/ \E line \in IdentityLines : ProcessLine(line, 0) /\ Bounded(MaxVisits, MaxEvents)
    \/ BatchEnd
    \/ \E userId \in Users : RefreshUser(userId) /\ Bounded(MaxVisits, MaxEvents)
    \/ \E i \in DOMAIN consumers : \E outcome \in Outcomes : \E tags \in TagSets :
          (outcome # "ok" => tags = {}) /\ RequestComplete(i, outcome, tags)
    \/ \E i \in DOMAIN consumers : DelayElapsed(i)
    \/ Tick

SpecIdentity == InitNotify /\ [][NextIdentity]_vars

\* The promise of processQueue was rejected and nothing awaits it: a runtime that
\* only warns of an unhandled rejection lets the process go on
UnhandledRejection ==
    /\ ~inBatch
    /\ threw
    /\ Commit(Caught(Fresh))
    /\ UNCHANGED <<batchVars, isRunning, dirVars, tailVars>>

\* Queue and subscribers: logged in and in the room Alpha, live joins of usr_a are
\* looked up while browsers subscribe and a send to one of them starts raising.
\* An error that no catch block took ends the process, or is only warned of
NextQueueFault ==
    \/ ~threw /\ BatchStart(TRUE)
    \/ \E line \in EnrichLines : ~threw /\ ProcessLine(line, 0) /\ Bounded(MaxVisits, MaxJoins)
    \/ ~threw /\ BatchEnd
    \/ \E i \in DOMAIN consumers : \E outcome \in {"ok", "error"} :
          ~threw /\ RequestComplete(i, outcome, IF outcome = "ok" THEN {"system_trust_basic"} ELSE {})
    \/ \E i \in DOMAIN consumers : ~threw /\ DelayElapsed(i)
    \/ ~threw /\ Tick
    \/ \E ws \in Subscribers : ~threw /\ WsConnection(ws)
    \/ \E ws \in Subscribers : ~threw /\ SendStartsRaising(ws)
    \/ \E ws \in Subscribers : ~threw /\ TransportCloses(ws)
    \/ \E ws \in Subscribers : ~threw /\ WsClose(ws)
    \/ UnhandledRejection

SpecQueueFault == InitNotify /\ [][NextQueueFault]_vars

\* ------------------------------------------------------------- tail reader

\* What the pattern of a room name captures from a name cut short by the end of
\* the text
Truncated(str) ==
    CASE str = "Alpha" -> "Alp"
      [] str = "Beta" -> "Be"
      [] OTHER -> str

\* The text between two newlines, bytes from..(to - 1) of a file, as the parser's
\* patterns see it.  The first part of a line ends inside the room name of an
\* 'Entering Room' line, before the room id of a 'Joining' line, and before the
\* end of what the pattern of any other line needs.  So, of both parts the
\* patterns see the line; of the first part only, the unanchored pattern of a
\* room name captures the name cut short, the others find no match; of the second
\* part only, or of nothing, none finds a match.
InterpretFragment(file, from, to) ==
    LET parts == { p % LineBytes : p \in from..(to - 1) }
        line == logText[file][(from \div LineBytes) + 1]
    IN IF parts = {0, 1} THEN line
       ELSE IF parts = {0} /\ line.kind = "EnteringRoom"
            THEN [line EXCEPT !.name = Truncated(@)]
       ELSE NoLine

\* lineBuffer.split('\n') without its last element: the complete lines among the
\* bytes from..(to - 1), which hold the buffered partial line and the new chunk
SplitLines(file, from, to) ==
    LET newlines == { q \in from..(to - 1) : q % LineBytes = LineBytes - 1 }
        first == from + (LineBytes - 1 - (from % LineBytes))
    IN [ k \in 1..Cardinality(newlines) |->
            InterpretFragment(file,
                              IF k = 1 THEN from ELSE first + (k - 2) * LineBytes + 1,
                              first + (k - 1) * LineBytes) ]

\* fs.createReadStream(currentLogFile, {start: lastReadPosition, end: size - 1})
\* with its lineBuffer, the bytes bufStart..(cur - 1) delivered and not yet parsed
OpenStream(file, position, shouldFetchUsers, showProgress) ==
    [file |-> file, cur |-> position, end |-> fileSize[file], bufStart |-> position,
     shouldFetchUsers |-> shouldFetchUsers, showProgress |-> showProgress]

\* The bytes a stream can deliver: those of its range that the file holds
Available(s) == IF fileSize[s.file] < s.end THEN fileSize[s.file] ELSE s.end

\* The client starts a new log file
ClientCreatesFile(maxFiles) ==
    /\ fileCount < maxFiles
    /\ fileCount' = fileCount + 1
    /\ sent' = << >>
    /\ delivered' = << >>
    /\ received' = NothingReceived
    /\ UNCHANGED <<vrVars, subVars, shutdown, authState>>
    /\ UNCHANGED <<ctxVars, batchVars, dbVars, apiVars, wsSessionUUID, wsPlayerCount, envVars,
                   logText, fileSize, tailVars>>

\* The client flushes one more byte of its newest file
ClientWrites ==
    /\ fileCount # 0
    /\ fileSize[fileCount] < Len(logText[fileCount]) * LineBytes
    /\ fileSize' = [fileSize EXCEPT ![fileCount] = @ + 1]
    /\ sent' = << >>
    /\ delivered' = << >>
    /\ received' = NothingReceived
    /\ UNCHANGED <<vrVars, subVars, shutdown, authState>>
    /\ UNCHANGED <<ctxVars, batchVars, dbVars, apiVars, wsSessionUUID, wsPlayerCount, envVars,
                   logText, fileCount, tailVars>>

\* The newest file is cut to nothing from outside (rotation, truncation); the
\* client writes on from there
FileTruncated ==
    /\ fileCount # 0
    /\ fileSize[fileCount] > 0
    /\ fileSize' = [fileSize EXCEPT ![fileCount] = 0]
    /\ sent' = << >>
    /\ delivered' = << >>
    /\ received' = NothingReceived
    /\ UNCHANGED <<vrVars, subVars, shutdown, authState>>
    /\ UNCHANGED <<ctxVars, batchVars, dbVars, apiVars, wsSessionUUID, wsPlayerCount, envVars,
                   logText, fileCount, tailVars>>

\* detectCurrentLogFile (called by start, by monitor and by the file watcher while
\* the process runs) finding a newest file that is not the current one: up to its
\* await of the backfill, or, with nothing to read, to the end
DetectCurrentLogFile ==
    /\ isRunning /\ ~inBatch
    /\ fileCount # 0
    /\ fileCount # currentLogFile
    /\ currentLogFile' = fileCount
    /\ lastReadPosition' = 0
    /\ historySize' = IF historySize[fileCount] = NoSize
                      THEN [historySize EXCEPT ![fileCount] = fileSize[fileCount]]
                      ELSE historySize
    /\ IF fileSize[fileCount] > 0
       THEN /\ Len(streams) < MaxStreams
            /\ streams' = Append(streams, OpenStream(fileCount, 0, FALSE, TRUE))
            /\ UNCHANGED logReadInterval
       ELSE /\ logReadInterval' = TRUE
            /\ UNCHANGED streams
    /\ sent' = << >>
    /\ delivered' = << >>
    /\ received' = NothingReceived
    /\ UNCHANGED <<vrVars, subVars, shutdown, authState>>
    /\ UNCHANGED <<ctxVars, batchVars, dbVars, apiVars, wsSessionUUID, wsPlayerCount, envVars,
                   dirVars>>

\* The poll timer fires: readLogFileFromPosition
PollTick ==
    /\ logReadInterval /\ ~inBatch
    /\ currentLogFile # NoFile
    /\ fileSize[currentLogFile] # lastReadPosition
    /\ LET currentSize == fileSize[currentLogFile]
           position == IF currentSize < lastReadPosition THEN 0 ELSE lastReadPosition
       IN /\ lastReadPosition' = position
          /\ IF currentSize > position
             THEN /\ Len(streams) < MaxStreams
                  /\ streams' = Append(streams, OpenStream(currentLogFile, position, TRUE, FALSE))
             ELSE UNCHANGED streams
    /\ sent' = << >>
    /\ delivered' = << >>
    /\ received' = NothingReceived
    /\ UNCHANGED <<vrVars, subVars, shutdown, authState>>
    /\ UNCHANGED <<ctxVars, batchVars, dbVars, apiVars, wsSessionUUID, wsPlayerCount, envVars,
                   dirVars, currentLogFile, logReadInterval, historySize>>

\* stream.on('data') of stream i with a chunk of n bytes
StreamData(i, n) ==
    /\ ~inBatch
    /\ i \in DOMAIN streams
    /\ n \in 1..(Available(streams[i]) - streams[i].cur)
    /\ LET s == streams[i]
           cur == s.cur + n
           newlines == { q \in s.bufStart..(cur - 1) : q % LineBytes = LineBytes - 1 }
           lines == SplitLines(s.file, s.bufStart, cur)
       IN /\ Commit(IF lines # << >> THEN ParseLogContent(lines, Fresh, s.shouldFetchUsers)
                                     ELSE Fresh)
          /\ streams' = [streams EXCEPT
                ![i].cur = cur,
                ![i].bufStart = IF newlines = {} THEN @
                                ELSE 1 + CHOOSE q \in newlines : \A r \in newlines : r <= q]
    /\ UNCHANGED <<batchVars, isRunning, dirVars,
                   currentLogFile, lastReadPosition, logReadInterval, historySize>>

\* stream.on('end') of stream i; the backfill's end lets detectCurrentLogFile go
\* on to startLogMonitoring
StreamEnd(i) ==
    /\ ~inBatch
    /\ i \in DOMAIN streams
    /\ streams[i].cur >= Available(streams[i])
    /\ LET s == streams[i]
       IN /\ Commit(IF s.bufStart < s.cur
                    THEN ParseLogContent(<< InterpretFragment(s.file, s.bufStart, s.cur) >>,
                                         Fresh, s.shouldFetchUsers)
                    ELSE Fresh)
          /\ lastReadPosition' = s.end
          /\ logReadInterval' = (s.showProgress \/ logReadInterval)
          /\ streams' = RemoveAt(streams, i)
    /\ UNCHANGED <<batchVars, isRunning, dirVars, currentLogFile, historySize>>

\* stream.on('error') of stream i: the error is logged; the promise of a backfill
\* is rejected, which detectCurrentLogFile catches and logs, leaving before its
\* startLogMonitoring
StreamError(i) ==
    /\ ~inBatch
    /\ i \in DOMAIN streams
    /\ streams' = RemoveAt(streams, i)
    /\ sent' = << >>
    /\ delivered' = << >>
    /\ received' = NothingReceived
    /\ UNCHANGED <<vrVars, subVars, shutdown, authState>>
    /\ UNCHANGED <<ctxVars, batchVars, dbVars, apiVars, wsSessionUUID, wsPlayerCount, envVars,
                   dirVars, currentLogFile, lastReadPosition, logReadInterval, historySize>>

\* The lines of a visit to the room Alpha
VisitText ==
    << Line("EnteringRoom", "Alpha", Null, Null, NoStamp),
       Line("Joining", Null, "wrld_1", Null, NoStamp),
       Line("JoinedRoom", Null, Null, Null, 1),
       Line("OnPlayerJoined", Null, Null, "usr_a", 2) >>

\* The lines of the join of the room Alpha, and a later participant line
FirstText ==
    << Line("EnteringRoom", "Alpha", Null, Null, NoStamp),
       Line("Joining", Null, "wrld_1", Null, NoStamp),
       Line("JoinedRoom", Null, Null, Null, 1) >>

SecondText == << Line("OnPlayerJoined", Null, Null, "usr_b", 2) >>

\* Chunked reading: the client writes one file, byte after byte, while the tail
\* reader detects it, backfills it and polls it, the streams delivering chunks of
\* any size
InitChunk ==
    /\ Holds(InitSt)
    /\ acc = EmptyAcc
    /\ lastLine = NoLine
    /\ inBatch = FALSE
    /\ shouldFetch = FALSE
    /\ isRunning = FALSE
    /\ logText = [f \in Files |-> IF f = 1 THEN VisitText ELSE << >>]
    /\ TailIdle

NextChunk ==
    \/ MonitorTick(TRUE)
    \/ ClientCreatesFile(1)
    \/ ClientWrites
    \/ DetectCurrentLogFile
    \/ PollTick
    \/ \E i \in DOMAIN streams : \E n \in 1..(Len(VisitText) * LineBytes) : StreamData(i, n)
    \/ \E i \in DOMAIN streams : StreamEnd(i)

SpecChunk == InitChunk /\ [][NextChunk]_vars

\* File switch: logged in, the tail reader follows the client from its first log
\* file to a second one, each written byte after byte
InitTail ==
    /\ Holds([InitSt EXCEPT !.authenticated = TRUE, !.authState = LoggedIn])
    /\ acc = EmptyAcc
    /\ lastLine = NoLine
    /\ inBatch = FALSE
    /\ shouldFetch = FALSE
    /\ isRunning = FALSE
    /\ logText = [f \in Files |-> IF f = 1 THEN FirstText ELSE SecondText]
    /\ TailIdle

NextTail ==
    \/ MonitorTick(TRUE)
    \/ ClientCreatesFile(Cardinality(Files))
    \/ ClientWrites
    \/ DetectCurrentLogFile
    \/ PollTick
    \/ \E i \in DOMAIN streams : \E n \in 1..(Len(FirstText) * LineBytes) : StreamData(i, n)
    \/ \E i \in DOMAIN streams : StreamEnd(i)

SpecTail == InitTail /\ [][NextTail]_vars

\* Restart: the client has written the first two lines of its log file and goes
\* on writing it; it is stopped and started again, the file staying the newest one
InitRestart ==
    /\ Holds(InitSt)
    /\ acc = EmptyAcc
    /\ lastLine = NoLine
    /\ inBatch = FALSE
    /\ shouldFetch = FALSE
    /\ isRunning = FALSE
    /\ logText = [f \in Files |-> IF f = 1 THEN FirstText ELSE << >>]
    /\ fileSize = [f \in Files |-> IF f = 1 THEN 2 * LineBytes ELSE 0]
    /\ fileCount = 1
    /\ currentLogFile = NoFile
    /\ lastReadPosition = 0
    /\ logReadInterval = FALSE
    /\ streams = << >>
    /\ historySize = [f \in Files |-> NoSize]

NextRestart ==
    \/ MonitorTick(TRUE)
    \/ MonitorTick(FALSE)
    \/ ClientWrites
    \/ DetectCurrentLogFile
    \/ PollTick
    \/ \E i \in DOMAIN streams : \E n \in 1..(Len(FirstText) * LineBytes) :
          StreamData(i, n) /\ Bounded(MaxBackfills, 0)
    \/ \E i \in DOMAIN streams : StreamEnd(i) /\ Bounded(MaxBackfills, 0)

SpecRestart == InitRestart /\ [][NextRestart]_vars

\* Failing reads: as SpecRestart without the client's exit, any read failing at
\* any point; a poll read has ended when the poll timer fires again
NextRetry ==
    \/ MonitorTick(TRUE)
    \/ ClientWrites
    \/ DetectCurrentLogFile
    \/ PollTick /\ streams = << >>
    \/ \E i \in DOMAIN streams : \E n \in 1..(Len(FirstText) * LineBytes) :
          StreamData(i, n) /\ Bounded(MaxBackfills, 0)
    \/ \E i \in DOMAIN streams : StreamEnd(i) /\ Bounded(MaxBackfills, 0)
    \/ \E i \in DOMAIN streams : StreamError(i)

SpecRetry == InitRestart /\ [][NextRetry]_vars

\* The lines of one visit: the room Alpha is joined at 1, usr_a joins at 2 and
\* leaves at 3, the room is left at 4
ScenarioText ==
    << Line("EnteringRoom", "Alpha", Null, Null, NoStamp),
       Line("Joining", Null, "wrld_1", Null, NoStamp),
       Line("JoinedRoom", Null, Null, Null, 1),
       Line("OnPlayerJoined", Null, Null, "usr_a", 2),
       Line("OnPlayerLeft", Null, Null, "usr_a", 3),
       Line("OnLeftRoom", Null, Null, Null, 4) >>

\* Live tailing of one visit: logged in, the tail reader polls an empty log file
\* that the client then writes byte after byte, the lookups being answered
InitScenario ==
    /\ Holds([InitSt EXCEPT !.authenticated = TRUE, !.authState = LoggedIn])
    /\ acc = EmptyAcc
    /\ lastLine = NoLine
    /\ inBatch = FALSE
    /\ shouldFetch = FALSE
    /\ isRunning = TRUE
    /\ logText = [f \in Files |-> IF f = 1 THEN ScenarioText ELSE << >>]
    /\ fileSize = [f \in Files |-> 0]
    /\ fileCount = 1
    /\ currentLogFile = 1
    /\ lastReadPosition = 0
    /\ logReadInterval = TRUE
    /\ streams = << >>
    /\ historySize = [f \in Files |-> IF f = 1 THEN 0 ELSE NoSize]

\* A poll read has ended when the poll timer fires again
NextScenario ==
    \/ ClientWrites
    \/ PollTick /\ streams = << >>
    \/ \E i \in DOMAIN streams : \E n \in 1..(Len(ScenarioText) * LineBytes) :
          StreamData(i, n) /\ Bounded(MaxVisits, MaxEvents)
    \/ \E i \in DOMAIN streams : StreamEnd(i) /\ Bounded(MaxVisits, MaxEvents)
    \/ \E i \in DOMAIN consumers : \E outcome \in Outcomes :
          RequestComplete(i, outcome, IF outcome = "ok" THEN {"system_trust_basic"} ELSE {})
    \/ Tick

SpecScenario == InitScenario /\ [][NextScenario]_vars

\* Partial last line: in the room Alpha, the tail reader polls a log file to
\* which the client writes two participant lines byte after byte
PartialText ==
    << Line("OnPlayerJoined", Null, Null, "usr_a", 2),
       Line("OnPlayerLeft", Null, Null, "usr_a", 3) >>

InitPartial ==
    /\ Holds([InRoom EXCEPT !.sent = << >>])
    /\ acc = EmptyAcc
    /\ lastLine = NoLine
    /\ inBatch = FALSE
    /\ shouldFetch = FALSE
    /\ isRunning = TRUE
    /\ logText = [f \in Files |-> IF f = 1 THEN PartialText ELSE << >>]
    /\ fileSize = [f \in Files |-> 0]
    /\ fileCount = 1
    /\ currentLogFile = 1
    /\ lastReadPosition = 0
    /\ logReadInterval = TRUE
    /\ streams = << >>
    /\ historySize = [f \in Files |-> IF f = 1 THEN 0 ELSE NoSize]

\* A poll read has ended when the poll timer fires again
NextPartial ==
    \/ ClientWrites
    \/ PollTick /\ streams = << >>
    \/ \E i \in DOMAIN streams : \E n \in 1..(Len(PartialText) * LineBytes) : StreamData(i, n)
    \/ \E i \in DOMAIN streams : StreamEnd(i)

SpecPartial == InitPartial /\ [][NextPartial]_vars

\* Read offset: as SpecPartial, with the file cut from outside at any time and
\* the poll timer firing whether the read before has ended or not
NextOffset ==
    \/ ClientWrites
    \/ FileTruncated
    \/ PollTick
    \/ \E i \in DOMAIN streams : \E n \in 1..(Len(PartialText) * LineBytes) :
          StreamData(i, n) /\ Bounded(MaxVisits, MaxEvents)
    \/ \E i \in DOMAIN streams : StreamEnd(i) /\ Bounded(MaxVisits, MaxEvents)

SpecOffset == InitPartial /\ [][NextOffset]_vars

\* --------------------------------------------------- auth service at run time

\* authService.initialize(), called once by index.ts
AuthInitialize(result) ==
    /\ ~inBatch
    /\ ~authState.initialized
    /\ Commit(Initialize(Fresh, result))
    /\ UNCHANGED <<batchVars, isRunning, dirVars, tailVars>>

\* The validation timer fires
PeriodicValidation(result) ==
    /\ ~inBatch
    /\ authState.periodic
    /\ authenticated
    /\ Commit(VerifyAndUpdateAuth(Fresh, result).S)
    /\ UNCHANGED <<batchVars, isRunning, dirVars, tailVars>>

\* More than TOKEN_STALE_THRESHOLD has passed since the last validation
TokenGoesStale ==
    /\ ~inBatch
    /\ authenticated
    /\ authState.lastValidated = "fresh"
    /\ Commit([Fresh EXCEPT !.authState = [@ EXCEPT !.lastValidated = "stale"]])
    /\ UNCHANGED <<batchVars, isRunning, dirVars, tailVars>>

\* The request of consumer loop i asks for the cookie and the token has to be
\* validated first: with the cookie the lookup goes on, without it the request
\* throws and settles as an error
GetAuthCookies(i, result) ==
    /\ ~inBatch
    /\ i \in DOMAIN consumers
    /\ consumers[i].pc = "request"
    /\ ShouldValidateToken(St)
    /\ LET r == GetValidatedAuthCookie(Fresh, result)
       IN IF r.cookie THEN Commit(r.S)
          ELSE Commit(Settle(r.S, i, consumers[i].task, "error", {}))
    /\ UNCHANGED <<batchVars, isRunning, dirVars, tailVars>>

\* Enrichment with a stored login: the program starts in a room with a session
\* stored by an earlier run, validated or not, with up to two failures counted
InitAuth ==
    /\ \E lastValidated \in {"never", "fresh", "stale"} :
       \E failures \in 0..(MAX_VALIDATION_FAILURES - 1) :
          Holds([InRoom EXCEPT !.sent = << >>,
                               !.authState = [saved |-> TRUE, lastValidated |-> lastValidated,
                                              validationFailures |-> failures,
                                              periodic |-> FALSE, initialized |-> FALSE]])
    /\ acc = EmptyAcc
    /\ lastLine = NoLine
    /\ inBatch = FALSE
    /\ shouldFetch = FALSE
    /\ isRunning = TRUE
    /\ logText = [f \in Files |-> << >>]
    /\ TailIdle

NextAuth ==
    \/ BatchStart(TRUE)
    \/ \E line \in EnrichLines : ProcessLine(line, 0) /\ Bounded(MaxVisits, MaxJoins)
    \/ BatchEnd
    \/ \E i \in DOMAIN consumers : \E outcome \in {"ok", "error"} :
          RequestComplete(i, outcome, IF outcome = "ok" THEN {"system_trust_basic"} ELSE {})
    \/ \E i \in DOMAIN consumers : DelayElapsed(i)
    \/ Tick
    \/ \E result \in ValidationResults : AuthInitialize(result)
    \/ \E result \in ValidationResults : PeriodicValidation(result)
    \/ TokenGoesStale
    \/ \E i \in DOMAIN consumers : \E result \in ValidationResults : GetAuthCookies(i, result)
    \/ SetAuthenticated(TRUE)

SpecAuth == InitAuth /\ [][NextAuth]_vars

\* ---------------------------------------------------------------- shutdown

\* VRNotificationService.close: the OVR Toolkit socket starts its closing
\* handshake.  Nothing in the program calls it
VRNotificationServiceClose(S) ==
    [S EXCEPT !.ovrtWebSocket = IF @ \in {"connecting", "open"} THEN "closing" ELSE @,
              !.shutdown = Append(@, "vrNotificationService.close")]

\* process.on('SIGINT'): stopWatcher clears the poll timer, the web server and
\* the store are closed and process.exit(0) ends the process in the same turn,
\* with whatever streams, queued requests and sockets are open
Sigint ==
    /\ ~inBatch
    /\ shutdown = << >>
    /\ Commit([Fresh EXCEPT !.shutdown = <<"monitor.stopWatcher", "webServer.stop",
                                           "database.close", "process.exit">>])
    /\ logReadInterval' = FALSE
    /\ UNCHANGED <<batchVars, isRunning, dirVars, currentLogFile, lastReadPosition, streams,
                   historySize>>

\* Logged in and tailing log file 1 in a room, until Ctrl+C
InitShutdown ==
    /\ Holds([InRoom EXCEPT !.sent = << >>, !.authenticated = TRUE, !.authState = LoggedIn])
    /\ acc = EmptyAcc
    /\ lastLine = NoLine
    /\ inBatch = FALSE
    /\ shouldFetch = FALSE
    /\ isRunning = TRUE
    /\ logText = [f \in Files |-> << >>]
    /\ fileSize = [f \in Files |-> 0]
    /\ fileCount = 1
    /\ currentLogFile = 1
    /\ lastReadPosition = 0
    /\ logReadInterval = TRUE
    /\ streams = << >>
    /\ historySize = [f \in Files |-> IF f = 1 THEN 0 ELSE NoSize]

\* Nothing runs once the process has exited; a batch is a read of the poll timer
NextShutdown ==
    \/ shutdown = << >> /\ logReadInterval /\ BatchStart(TRUE)
    \/ \E line \in EnrichLines :
          shutdown = << >> /\ ProcessLine(line, 0) /\ Bounded(MaxVisits, MaxJoins)
    \/ shutdown = << >> /\ BatchEnd
    \/ \E i \in DOMAIN consumers : \E outcome \in Outcomes : \E tags \in TagSets :
          shutdown = << >> /\ (outcome # "ok" => tags = {}) /\ RequestComplete(i, outcome, tags)
    \/ \E i \in DOMAIN consumers : shutdown = << >> /\ DelayElapsed(i)
    \/ shutdown = << >> /\ Tick
    \/ shutdown = << >> /\ OvrtOpen
    \/ \E failed \in BOOLEAN : shutdown = << >> /\ OvrtConnectionEnds(failed)
    \/ shutdown = << >> /\ OvrtError
    \/ shutdown = << >> /\ OvrtClose
    \/ shutdown = << >> /\ ReconnectTick
    \/ shutdown = << >> /\ ReconnectTimerFires
    \/ Sigint

SpecShutdown == InitShutdown /\ [][NextShutdown]_vars

\* ------------------------------------------------------------------ claims

\* C1 (checked under Spec): after any sequence of processed room lines and of
\* client-process start/exit events, the store holds at most one session with a
\* 'Joining World' record and no 'Leaving World' record.
C1_AtMostOneOpenSession == Cardinality(OpenSessions(St)) <= 1

\* C2 (checked under SpecRejoin): an iteration of the parse loop whose line
\* completes a room-join sequence for the room the context is already in creates
\* no session: the session id, the participant set and every stored record are
\* unchanged, no UUID is minted and nothing (no session, no log message) is
\* broadcast, in the batch of the first join or in a later one.
C2_RepeatedJoinCreatesNoSession ==
    [][( /\ inBatch /\ inBatch'
         /\ LET a1 == ParseWorldJoinSequence(lastLine', acc)
            IN /\ a1.worldJoinTimestamp # NoStamp
               /\ a1.worldName # Null
               /\ a1.worldId # Null
               /\ a1.worldName = currentWorldName
               /\ a1.worldId = currentWorldId )
       => /\ UNCHANGED <<ctxVars, dbVars, uuidCounter, wsSessionUUID>>
          /\ sent' = << >>]_vars

\* C2 witness: a join confirmation has just completed a sequence (the accumulator
\* is reset) inside a batch, in a session that has its 'Joining World' record and
\* a participant, and nothing was broadcast.
C2_Witness ==
    /\ inBatch
    /\ lastLine.kind = "JoinedRoom"
    /\ acc = EmptyAcc
    /\ sent = << >>
    /\ currentSessionUUID # NoSession
    /\ currentPlayersInWorld # {}
    /\ \E i \in DOMAIN world_activity :
          /\ world_activity[i].session_uuid = currentSessionUUID
          /\ world_activity[i].event_type = "Joining World"

\* C4 (checked under SpecPlayers): a join or leave recording is all-or-nothing.
\* An iteration of the parse loop on a participant line in a session either leaves
\* the store as it was and broadcasts nothing (a write failed and the error reached
\* the extractor), or leaves one more player event, one more encounter and a
\* cached row for the player.  At every moment each player event has exactly one
\* matching encounter and each encounter exactly one matching player event.
C4_RecordingIsAllOrNothing ==
    [][LET Matches(p, e) ==
               /\ p.player_id = e.user_id
               /\ p.session_uuid = e.session_uuid
               /\ p.timestamp = e.timestamp
               /\ e.event_type = (IF p.event_type = "Player Joined" THEN "joined" ELSE "left")
       IN /\ \A i \in DOMAIN player_activity' :
                Cardinality({ j \in DOMAIN user_encounters' :
                                Matches(player_activity'[i], user_encounters'[j]) }) = 1
          /\ \A j \in DOMAIN user_encounters' :
                Cardinality({ i \in DOMAIN player_activity' :
                                Matches(player_activity'[i], user_encounters'[j]) }) = 1
          /\ ( /\ inBatch /\ inBatch'
               /\ lastLine'.kind \in {"OnPlayerJoined", "OnPlayerLeft"}
               /\ currentSessionUUID # NoSession )
             => \/ UNCHANGED dbVars /\ sent' = << >>
                \/ /\ Len(player_activity') = Len(player_activity) + 1
                   /\ Len(user_encounters') = Len(user_encounters) + 1
                   /\ player_activity'[Len(player_activity')].player_id = lastLine'.user
                   /\ cached_users'[lastLine'.user] # NoUser
                   /\ sent' # << >>]_vars

\* C4 witness: in a session, a player whose join was recorded has just had a
\* leave line processed with nothing broadcast (the recording threw), and the
\* store holds the join only.
C4_Witness ==
    /\ lastLine.kind = "OnPlayerLeft"
    /\ currentSessionUUID # NoSession
    /\ sent = << >>
    /\ Len(player_activity) = 1
    /\ player_activity[1].player_id = lastLine.user
    /\ player_activity[1].session_uuid = currentSessionUUID
    /\ player_activity[1].event_type = "Player Joined"

\* C5 (checked under SpecEnrich): at most one outbound lookup is in flight at any
\* time, whatever the interleaving of enqueues from participant joins, manual
\* refreshes and live-profile requests with the execution of a request and with
\* the wait between two requests; a single consumer loop runs.
C5_AtMostOneRequestInFlight ==
    /\ Cardinality({ i \in DOMAIN consumers : consumers[i].pc = "request" }) <= 1
    /\ Len(consumers) <= 1

\* C5 witness: the lookup of a participant join is in flight while a refresh and
\* a live-profile request wait in the queue.
C5_Witness ==
    /\ \E i \in DOMAIN consumers :
          consumers[i].pc = "request" /\ consumers[i].task.origin = "join"
    /\ \E j \in DOMAIN requestQueue : requestQueue[j].origin = "refresh"
    /\ \E j \in DOMAIN requestQueue : requestQueue[j].origin = "live"

\* C6 (checked under SpecEnrich): a lookup starts only when no lookup has
\* completed yet or at least RATE_LIMIT_DELAY has passed since the latest
\* completion, for every arrival pattern of tasks.
C6_DelayBetweenRequests ==
    [][LET InFlight(c) == { i \in DOMAIN c : c[i].pc = "request" }
       IN (InFlight(consumers) = {} /\ InFlight(consumers') # {})
          => (sinceDone = NoGap \/ sinceDone >= RATE_LIMIT_DELAY)]_vars

C9_RoomLeaveClosesSession ==
    [][\A line \in VisitLines : \A fault \in Faults(line) :
          (ProcessLine(line, fault) /\ line.kind = "OnLeftRoom")
          => IF currentSessionUUID # NoSession
             THEN /\ currentWorldName' = Null
                  /\ currentWorldId' = Null
                  /\ currentSessionUUID' = NoSession
                  /\ currentPlayersInWorld' = {}
                  /\ \E i \in DOMAIN world_activity' :
                        /\ world_activity'[i].event_type = "Leaving World"
                        /\ world_activity'[i].session_uuid = currentSessionUUID
                  /\ wsPlayerCount' = 0
                  /\ \E m \in DOMAIN sent' : sent'[m].type = "playerCount" /\ sent'[m].num = 0
             ELSE UNCHANGED <<ctxVars, dbVars, wsSessionUUID, wsPlayerCount>> /\ sent' = << >>]_vars

\* C10 (checked under Spec): when the client process is seen to have gone while a
\* session is active, the context holds no session afterwards and the store no
\* longer reports that session as the open one.
C10_ProcessExitClosesSession ==
    [][(isRunning /\ ~isRunning' /\ currentSessionUUID # NoSession)
          => /\ currentSessionUUID' = NoSession
             /\ currentSessionUUID \notin GetCurrentActiveSession(St)']_vars

\* C3 (checked under SpecChunk): once the file is written and read to its end,
\* the recorded events and the session state are those of one parse of the whole
\* text, wherever the boundaries of chunks and of poll reads fell.
C3_ChunkingIsTransparent ==
    ( /\ fileCount = 1
      /\ fileSize[1] = Len(logText[1]) * LineBytes
      /\ currentLogFile = 1
      /\ lastReadPosition = fileSize[1]
      /\ streams = << >> )
    => LET whole == ParseLogContent(logText[1], InitSt, FALSE)
       IN /\ world_activity = whole.world_activity
          /\ player_activity = whole.player_activity
          /\ user_encounters = whole.user_encounters
          /\ currentWorldName = whole.currentWorldName
          /\ currentWorldId = whole.currentWorldId
          /\ currentSessionUUID = whole.currentSessionUUID
          /\ currentPlayersInWorld = whole.currentPlayersInWorld

\* C8 (checked under SpecTail): no lookup is ever queued or in flight for a
\* participant-join line that was in its file when the file was first detected.
C8_NoLookupForBackfilledJoin ==
    \A t \in { requestQueue[j] : j \in DOMAIN requestQueue }
             \cup { consumers[i].task : i \in DOMAIN consumers } :
        t.origin = "join"
        => ~ \E f \in Files : \E k \in DOMAIN logText[f] :
                /\ logText[f][k].kind = "OnPlayerJoined"
                /\ logText[f][k].ts = t.timestamp
                /\ historySize[f] >= k * LineBytes

\* C11 (checked under SpecPlayers): a participant-join or participant-leave line
\* processed while no session is active leaves the context (the participant set
\* included) and the store unchanged, enqueues no lookup and broadcasts nothing.
C11_ParticipantLineOutsideSessionIgnored ==
    [][(/\ inBatch /\ inBatch'
        /\ lastLine'.kind \in {"OnPlayerJoined", "OnPlayerLeft"}
        /\ currentSessionUUID = NoSession)
       => /\ UNCHANGED <<ctxVars, dbVars, requestQueue, consumers>>
          /\ sent' = << >>]_vars

\* C12 (checked under SpecEnrich): every recorded participant join, the first and
\* every later one, increases the participant's times_encountered by one.
C12_EachJoinCountsOneEncounter ==
    [][(/\ inBatch /\ inBatch'
        /\ lastLine'.kind = "OnPlayerJoined"
        /\ Len(player_activity') = Len(player_activity) + 1)
       => cached_users'[lastLine'.user].timesEncountered
             = cached_users[lastLine'.user].timesEncountered + 1]_vars

C14_PauseShortCircuitsDelivery ==
    [][/\ paused => delivered' = << >>
       /\ paused # paused'
          => /\ delivered' = << >>
             /\ UNCHANGED <<ovrtConnected, ovrtWebSocket, reconnectTimer>>
       /\ \A i \in DOMAIN consumers : \A tags \in TagSets :
             (RequestComplete(i, "ok", tags) /\ consumers[i].task.origin = "join")
             => /\ UNCHANGED <<paused, ovrtConnected, ovrtWebSocket, reconnectTimer>>
                /\ (~paused /\ GetUserTrustRank(tags) = "Visitor") => Len(delivered') = 1
      ]_vars

\* C14 witness: notifications are paused, the lookup of usr_a's live join has
\* just succeeded with the rank Visitor, and no notification was sent.
C14_Witness ==
    /\ paused
    /\ \E m \in DOMAIN sent : sent[m].type = "userCached" /\ sent[m].text = "Visitor"
    /\ delivered = << >>

C16_FallbackWhenPrimaryCannotDeliver ==
    [][\A i \in DOMAIN consumers : \A tags \in TagSets :
          (/\ RequestComplete(i, "ok", tags)
           /\ consumers[i].task.origin = "join"
           /\ GetUserTrustRank(tags) = "Visitor"
           /\ ~paused
           /\ (~ovrtConnected \/ WsSend(ovrtWebSocket) # "sent"))
          => \E k \in DOMAIN delivered' :
                delivered'[k].transport = "xso" /\ delivered'[k].result = "sent"]_vars

\* C17 (checked under SpecNotify): a successful lookup of a live join sends at
\* most one alert: the nuisance alert, and only it, when the identity carries a
\* nuisance tag; the visitor alert when the identity is a Visitor and carries
\* none; no alert otherwise.
C17_FlaggedAlertTakesPrecedence ==
    [][\A i \in DOMAIN consumers : \A tags \in TagSets :
          (RequestComplete(i, "ok", tags) /\ consumers[i].task.origin = "join" /\ ~paused)
          => LET kinds == { delivered'[k].kind : k \in DOMAIN delivered' }
                 flagged == tags \cap {"system_troll", "system_probable_troll"} # {}
             IN /\ Len(delivered') <= 1
                /\ flagged => kinds \in { {"troll"}, {"probable_troll"} }
                /\ (~flagged /\ GetUserTrustRank(tags) = "Visitor") => kinds = {"visitor"}
                /\ (~flagged /\ GetUserTrustRank(tags) # "Visitor") => kinds = {}]_vars

\* C18 (checked under SpecNotifyLive): whenever the connection to OVR Toolkit has
\* ended (refused, failed or closed), a new connection attempt follows, every
\* time; an attempt is only made once the reconnection delay has elapsed; and a
\* notification sent while OVR Toolkit is not connected goes, in the same step,
\* through XSOverlay.
C18_ReconnectsUntilConnected ==
    /\ [][(ovrtWebSocket' = "connecting" /\ ovrtWebSocket # "connecting")
          => (ovrtWebSocket = "closed" /\ reconnectTimer = 0)]_vars
    /\ [][(~ovrtConnected /\ delivered' # << >>)
          => \A k \in DOMAIN delivered' : delivered'[k].transport = "xso"]_vars
    /\ (ovrtWebSocket \in {"failing", "closing", "closed"}) ~> (ovrtWebSocket = "connecting")

\* C18 witness: the connection has ended, the reconnection delay has elapsed so
\* that the next attempt is due, and the visitor alert for usr_a has just gone
\* through XSOverlay.
C18_Witness ==
    /\ ovrtWebSocket = "closed"
    /\ ~ovrtConnected
    /\ reconnectTimer = 0
    /\ delivered = << Notification("xso", "visitor", "usr_a", "sent") >>

C20_FailingSubscriberIsIsolated ==
    [][ sent' # << >> =>
          /\ \A ws \in Subscribers :
                (readyState[ws] = "open" /\ ws \notin sendRaises) => received'[ws] = sent'
          /\ ~threw'
          /\ \A ws \in Subscribers :
                (readyState[ws] = "open" /\ ws \in sendRaises) =>
                    \A k \in DOMAIN clients' : clients'[k] # ws ]_vars


\* C21: the initial data sent to a subscriber that connects reports the parser's
\* current session (none when there is none), the size of its participant set
\* and the notification service's pause flag
C21_SnapshotReportsCurrentState ==
    [][ \A ws \in Subscribers :
          (readyState[ws] = "none" /\ readyState'[ws] = "open") =>
              /\ Len(received'[ws]) = 1
              /\ received'[ws][1].type = "initialData"
              /\ received'[ws][1].session = currentSessionUUID
              /\ received'[ws][1].num = Cardinality(currentPlayersInWorld)
              /\ received'[ws][1].text = (IF paused THEN "paused" ELSE "notPaused") ]_vars


\* C22: the initial data is the first message a subscriber receives; every row
\* recorded before it connected is among the rows of its initial data, and every
\* row recorded while it is connected and open reaches it as a live log message
C22_SnapshotThenLiveWithoutGap ==
    [][ /\ \A ws \in Subscribers :
              (readyState[ws] = "none" /\ readyState'[ws] = "open") =>
                  /\ received'[ws] = <<InitialData(St)>>
                  /\ \A i \in DOMAIN world_activity : world_activity[i] \in InitialWorldLogs(St)
                  /\ \A i \in DOMAIN player_activity : player_activity[i] \in InitialPlayerLogs(St)
        /\ \A ws \in Subscribers :
              (/\ readyState[ws] = "open"
               /\ ws \notin sendRaises
               /\ \E k \in DOMAIN clients : clients[k] = ws) =>
                  /\ \A i \in (Len(world_activity) + 1)..Len(world_activity') :
                        \E k \in DOMAIN received'[ws] :
                            received'[ws][k] = Msg("log", world_activity'[i].event_type,
                                                   world_activity'[i].world_name,
                                                   world_activity'[i].session_uuid,
                                                   world_activity'[i].timestamp)
                  /\ \A i \in (Len(player_activity) + 1)..Len(player_activity') :
                        \E k \in DOMAIN received'[ws] :
                            received'[ws][k] = Msg("log", player_activity'[i].event_type,
                                                   player_activity'[i].player_id,
                                                   player_activity'[i].session_uuid,
                                                   player_activity'[i].timestamp) ]_vars


C24_BackfilledContentRecordedOnce ==
    \A f \in Files :
        historySize[f] # NoSize =>
            \A k \in 1..(historySize[f] \div LineBytes) :
                logText[f][k].kind = "JoinedRoom" =>
                    Cardinality({ i \in DOMAIN world_activity :
                                    /\ world_activity[i].event_type = "Joining World"
                                    /\ world_activity[i].timestamp = logText[f][k].ts }) <= 1


\* Where a component stands in the order of the shutdown (0: it was not stopped)
StoppedAt(component) ==
    IF \E k \in DOMAIN shutdown : shutdown[k] = component
    THEN CHOOSE k \in DOMAIN shutdown : shutdown[k] = component
    ELSE 0

\* C25 (checked under SpecShutdown): the shutdown starts between two handlers,
\* never inside a batch; it stops the poll timer; it closes the notification
\* transports after the tail reader, the web server and the store have been
\* stopped and before the process exits; and once it has run no poll read and no
\* lookup request starts.
C25_ShutdownOrder ==
    [][ IF shutdown = << >>
        THEN shutdown' # << >> =>
               /\ ~inBatch
               /\ ~logReadInterval'
               /\ ovrtWebSocket' \in {"closing", "closed"}
               /\ StoppedAt("vrNotificationService.close")' > StoppedAt("monitor.stopWatcher")'
               /\ StoppedAt("vrNotificationService.close")' > StoppedAt("webServer.stop")'
               /\ StoppedAt("vrNotificationService.close")' > StoppedAt("database.close")'
               /\ StoppedAt("vrNotificationService.close")' < StoppedAt("process.exit")'
        ELSE /\ ~inBatch'
             /\ Len(streams') <= Len(streams)
             /\ \A i \in DOMAIN consumers' :
                   consumers'[i].pc = "request" => (i \in DOMAIN consumers /\ consumers[i] = consumers'[i])
      ]_vars


\* The session and participant-count messages among those broadcast
SessionAndCountMessages(messages) ==
    SelectSeq(messages, LAMBDA m : m.type \in {"session", "playerCount"})

\* C26 (checked under SpecScenario): when one read delivers the whole visit (Alpha
\* joined at 1, usr_a joins at 2 and leaves at 3, room left at 4), the store holds
\* one session of Alpha opened at 1 and closed at 4, the join and the leave of
\* usr_a under it, one lookup has been asked for usr_a, and the session and
\* participant-count messages broadcast are session-open, count 1, count 0,
\* session-close, in this order.
C26_OneVisitScenario ==
    [][ (Len(world_activity) = 0 /\ Len(world_activity') = 2) =>
          /\ world_activity' =
                << [session_uuid |-> 1, event_type |-> "Joining World", world_name |-> "Alpha",
                    timestamp |-> 1, world_id |-> "wrld_1"],
                   [session_uuid |-> 1, event_type |-> "Leaving World", world_name |-> "Alpha",
                    timestamp |-> 4, world_id |-> "wrld_1"] >>
          /\ player_activity' =
                << [session_uuid |-> 1, event_type |-> "Player Joined", timestamp |-> 2,
                    player_id |-> "usr_a"],
                   [session_uuid |-> 1, event_type |-> "Player Left", timestamp |-> 3,
                    player_id |-> "usr_a"] >>
          /\ requestQueue' = << >>
          /\ Len(consumers') = 1
          /\ consumers'[1].pc = "request" /\ consumers'[1].task.userId = "usr_a"
          /\ LET m == SessionAndCountMessages(sent')
             IN /\ Len(m) = 4
                /\ m[1].type = "session" /\ m[1].session = 1
                /\ m[2].type = "playerCount" /\ m[2].num = 1
                /\ m[3].type = "playerCount" /\ m[3].num = 0
                /\ m[4].type = "session" /\ m[4].session = NoSession ]_vars


\* C27 (checked under SpecAuth): the stored session is dropped by a validation
\* only when that validation is the third failure counted; a network error, and a
\* first or second failure, leave it stored, whichever path validates
C27_ClearedOnlyAfterThreeFailures ==
    [][ (authState.saved /\ ~authState.saved') =>
            authState.validationFailures + 1 >= MAX_VALIDATION_FAILURES ]_vars


\* C28 (checked under SpecPartial): a read that ends inside a line leaves that
\* line for a later read, so once the reads have passed the newline of a line,
\* the line has been parsed as a whole and recorded exactly once
C28_PartialLastLineIsKept ==
    \A k \in DOMAIN PartialText :
        (streams = << >> /\ lastReadPosition >= k * LineBytes) =>
            Cardinality({ i \in DOMAIN player_activity :
                            /\ player_activity[i].player_id = PartialText[k].user
                            /\ player_activity[i].timestamp = PartialText[k].ts }) = 1


QueueDepths(messages) ==
    LET apiQueue == SelectSeq(messages, LAMBDA m : m.type = "apiQueue")
    IN [k \in DOMAIN apiQueue |-> apiQueue[k].num]

\* The requests handed to the API client and not settled: waiting or being made
Unsettled == Len(requestQueue) + Cardinality({ i \in DOMAIN consumers : consumers[i].pc = "request" })

C31_ReadOffsetMonotone ==
    [][ (currentLogFile' = currentLogFile /\ lastReadPosition' # lastReadPosition) =>
          \/ /\ lastReadPosition' > lastReadPosition
             /\ \E i \in DOMAIN streams : lastReadPosition' = streams[i].end
          \/ /\ lastReadPosition' = 0
             /\ fileSize[currentLogFile] < lastReadPosition
             /\ \A i \in (Len(streams) + 1)..Len(streams') : streams'[i].cur = 0 ]_vars


\* C32 (checked under SpecRetry): a read that fails leaves lastReadPosition as it
\* was and the poll timer running, so that the next tick reads from that offset
C32_FailedReadIsRetried ==
    [][ \A i \in DOMAIN streams :
          StreamError(i) => (lastReadPosition' = lastReadPosition /\ logReadInterval') ]_vars


\* C33 (checked under SpecChunk): of the reads the poll timer started on the
\* tailed file, at most one is open at any time
C33_OneReadAtATime ==
    Cardinality({ i \in DOMAIN streams :
                    streams[i].file = currentLogFile /\ ~streams[i].showProgress }) <= 1


\* C34 (checked under SpecQueueFault): the processing flag is set only while a
\* loop of processQueue is there to start the requests that wait
C34_ProcessingHasConsumer ==
    processing => consumers # << >>


\* C35 (checked under SpecPlayers): every player_activity row and every
\* user_encounters row carries the session of a 'Joining World' row of the store
C35_RowsBelongToRecordedSession ==
    LET opened == { world_activity[i].session_uuid :
                      i \in { j \in DOMAIN world_activity :
                                world_activity[j].event_type = "Joining World" } }
    IN /\ \A i \in DOMAIN player_activity : player_activity[i].session_uuid \in opened
       /\ \A i \in DOMAIN user_encounters : user_encounters[i].session_uuid \in opened


\* C36 (checked under SpecFaults): a line's handler broadcasts a log entry only
\* for a row it has just written, and a session only when it has written the
\* 'Joining World' row of that session; a participant join whose rows were not
\* written leaves the queue of lookups as it was
C36_BroadcastOnlyAfterWrite ==
    [][ \A line \in FaultLines : \A fault \in Faults(line) :
          ProcessLine(line, fault) =>
            LET newWorld == { world_activity'[i] :
                                i \in (Len(world_activity) + 1)..Len(world_activity') }
                newPlayer == { player_activity'[i] :
                                 i \in (Len(player_activity) + 1)..Len(player_activity') }
            IN /\ \A k \in DOMAIN sent' :
                    /\ sent'[k].type = "log" =>
                          \/ \E r \in newWorld : /\ r.event_type = sent'[k].text
                                                 /\ r.session_uuid = sent'[k].session
                                                 /\ r.timestamp = sent'[k].num
                          \/ \E r \in newPlayer : /\ r.event_type = sent'[k].text
                                                  /\ r.session_uuid = sent'[k].session
                                                  /\ r.player_id = sent'[k].subject
                                                  /\ r.timestamp = sent'[k].num
                    /\ sent'[k].type = "session" =>
                          \E r \in newWorld : /\ r.event_type = "Joining World"
                                              /\ r.session_uuid = sent'[k].session
               /\ (line.kind = "OnPlayerJoined" /\ newPlayer = {}) =>
                    /\ requestQueue' = requestQueue
                    /\ consumers' = consumers ]_vars

\* In a session, a participant join has just been parsed whose rows the store did
\* not write: nothing was broadcast and no lookup asked for
C36_Witness ==
    /\ inBatch
    /\ lastLine.kind = "OnPlayerJoined"
    /\ lastLine.ts = NextStamp
    /\ currentSessionUUID # NoSession
    /\ lastLine.user \in currentPlayersInWorld
    /\ sent = << >>
    /\ requestQueue = << >>
    /\ consumers = << >>


\* C37 (checked under SpecFaults): while a session is in force the participant
\* count the web server holds, the one it last broadcast, is the size of
\* currentPlayersInWorld
C37_CountMatchesParticipantSet ==
    currentSessionUUID # NoSession => wsPlayerCount = Cardinality(currentPlayersInWorld)


C39_SaveLeavesEncounterCount ==
    [][ \A i \in DOMAIN consumers : \A tags \in TagSets :
          (/\ RequestComplete(i, "ok", tags)
           /\ consumers[i].task.origin \in {"join", "refresh"}
           /\ cached_users[consumers[i].task.userId] # NoUser) =>
             cached_users'[consumers[i].task.userId].timesEncountered
               = cached_users[consumers[i].task.userId].timesEncountered ]_vars

====
